---- MODULE Spec2Model ----
(***************************************************************************)
(* Capture Open: the cache-first synchronisation and derivative pipeline.  *)
(*                                                                         *)
(*   Metadata Cache      src/electron/database.ts   (DatabaseManager)      *)
(*   Derivative Store    src/electron/sidecar.ts    (SidecarManager)       *)
(*   Derivative Server   src/electron/thumbnail-server.ts                  *)
(*   Project list        src/unnamed/part_001:5-65  (Store)                *)
(*   Reconciliation      src/unnamed/part_001:67-341 (main process)        *)
(*                                                                         *)
(* Paths are sequences of one-character strings, so that the sanitising    *)
(* replace of the start-watching handler is computed character by          *)
(* character; file names are single tokens that hold no separator.         *)
(***************************************************************************)
EXTENDS Integers, Sequences, FiniteSets, TLC

VARIABLES
    images,          \* table images: a set of rows
    projects,        \* table projects: a set of rows
    operationCount,  \* DatabaseManager.operationCount
    imagesFts,       \* the full-text index images_fts: its entries
    dbPre,           \* observation: table images before the last observed call
    dbOp,            \* observation: the last observed DatabaseManager call
    now,             \* the system clock, in milliseconds
    srcFiles,        \* the source files on disk: <<folder, name>> -> file
    derivs,          \* the sidecar files on disk: <<folder, name, tier>> -> file
    generated,       \* observation: the keys of derivs generated since their source last changed
    scOp,            \* observation: the last observed SidecarManager call
    projCalls,       \* observation: project id -> times of its first and latest upsertProject
    store,           \* Store.data.projects
    storeIssued,     \* observation: every <<path, id>> Store.addProject has returned
    albums,          \* the renderer's state albums (App.tsx), in list order
    handlers,        \* the renderer's calls in flight: getProjects, handleAddFolder
    watcher,         \* the main process's watcher: the session that made it, 0 for null
    closedW,         \* the watchers on which close() was called
    sidecarManagers, \* the main process's map: project id -> SidecarManager
    serverManagers,  \* ThumbnailServer.sidecarManagers
    sessions,        \* the start-watching calls, in call order
    pipes,           \* the processImageWithSidecar calls in flight
    bg,              \* the background preview tasks in flight
    events,          \* chokidar 'add' events not yet delivered: <<session, name, n>>
    sent,            \* what webContents.send has sent to the renderer, in order
    served,          \* observation: the response to the last request of the server
    listener,        \* ThumbnailServer.start(): its position, this.port and its outcome
    work,            \* the work done so far: pictures, calls, changes from outside
    diffRun          \* a diff over many files of one kind: its pipelines, counted by step

dbVars == <<images, imagesFts, projects, operationCount>>
dbObs == <<dbPre, dbOp>>
fsVars == <<now, srcFiles, derivs>>
scObs == <<generated, scOp>>
storeVars == <<store, storeIssued, albums, handlers>>
engVars == <<watcher, closedW, sidecarManagers, serverManagers, sessions, pipes, bg,
             events, sent, served, listener, work>>
vars == <<images, imagesFts, projects, operationCount, dbPre, dbOp, now, srcFiles, derivs,
          generated, scOp, projCalls, store, storeIssued, albums, handlers, watcher,
          closedW,
          sidecarManagers, serverManagers, sessions, pipes, bg, events, sent,
          served, listener, work, diffRun>>

(***************************************************************************)
(* Bounds of the model.                                                    *)
(***************************************************************************)
\* the largest modified_at of a row
MaxMtime == 2
\* the longest list given to upsertImagesBatch
MaxBatch == 2
\* the last tick of the clock
MaxClock == 2
\* the number of start-watching calls
MaxCalls == 2
\* the work of a behaviour: pictures held or created, calls, changes from
\* outside
MaxWork == 4
\* the same, where requests to the server are made as well
MaxServerWork == 3
\* the same, after a restart of the application
MaxRescanWork == 3

(***************************************************************************)
(* Paths.                                                                  *)
(***************************************************************************)
FolderAB == <<"/", "a", "/", "b">>
FolderA_B == <<"/", "a", "_", "b">>
FolderC == <<"/", "c">>
Names == {"x.jpg", "y.jpg"}

\* path.join(folderPath, fileName)
PathJoin(folder, name) == folder \o <<"/", name>>

\* folderPath.replace(/[\\/:]/g, '_')
SanitizeId(folderPath) ==
    [i \in 1..Len(folderPath) |->
        IF folderPath[i] \in {"\\", "/", ":"} THEN "_" ELSE folderPath[i]]

\* path.basename(folderPath): what follows the last separator
Basename(folderPath) ==
    LET seps == {i \in 1..Len(folderPath) : folderPath[i] \in {"/", "\\"}}
        last == IF seps = {} THEN 0 ELSE CHOOSE i \in seps : \A j \in seps : j <= i
    IN  SubSeq(folderPath, last + 1, Len(folderPath))

(***************************************************************************)
(* Metadata Cache: table projects.                                         *)
(***************************************************************************)
\* COALESCE((SELECT created_at FROM projects WHERE id = ?), now)
CreatedAtNow(tbl, id, t) == t
CreatedAt(tbl, id, t) ==
    LET old == {row \in tbl : row.id = id}
    IN  IF old = {} THEN t ELSE (CHOOSE row \in old : TRUE).created_at

\* INSERT OR REPLACE INTO projects: the rows that hold the new row's id
\* (PRIMARY KEY) or path (UNIQUE) are deleted, then the row is inserted
UpsertProject(tbl, id, name, path, t) ==
    (tbl \ {row \in tbl : row.id = id \/ row.path = path}) \cup
    {[id |-> id, name |-> name, path |-> path,
      created_at |-> CreatedAt(tbl, id, t), last_opened |-> t, cache_size |-> 0]}

(***************************************************************************)
(* Metadata Cache: table images.                                           *)
(***************************************************************************)
\* checkOptimization: the counter restarts when it reaches 100
OptimizeEvery == 100
checkOptimization(count) ==
    IF count + 1 >= OptimizeEvery THEN 0 ELSE count + 1

\* The DO UPDATE SET of upsertImage applied to the stored row.
UpsertImageSetAllColumns(row, excluded) == [excluded EXCEPT !.id = row.id]
UpsertImageSet(row, excluded) ==
    [row EXCEPT !.file_size = excluded.file_size,
                !.width = excluded.width,
                !.height = excluded.height,
                !.modified_at = excluded.modified_at,
                !.rating = IF excluded.modified_at > row.modified_at
                           THEN excluded.rating ELSE row.rating]

\* The WHERE of the DO UPDATE, shared by upsertImage and upsertImagesBatch.
UpsertWhereOrEqual(row, excluded) == excluded.modified_at >= row.modified_at
UpsertWhere(row, excluded) == excluded.modified_at > row.modified_at

\* CREATE TABLE images (...): its columns
ImagesColumns == {"id", "project_id", "file_path", "file_name", "file_size", "width",
                  "height", "created_at", "modified_at", "rating"}

\* CREATE VIRTUAL TABLE images_fts USING fts5(file_name, tags, content='images',
\* content_rowid='rowid'): the index keeps no copy of the text.  To delete or
\* update an entry FTS5 reads the entry's row from the content table, every
\* column of the index by its name; the statement fails ("no such column")
\* when the content table lacks one of them.
FtsColumns == {"file_name", "tags"}
FtsContentReadable == FtsColumns \subseteq ImagesColumns

\* trigger images_fts_insert: the entry of a new row
FtsEntry(row) == [rowid |-> row.id, file_name |-> row.file_name]

\* the index of a table whose rows were all inserted
FtsOf(tbl) == {FtsEntry(row) : row \in tbl}

\* The triggers images_fts_insert, images_fts_delete and images_fts_update,
\* run for each row a statement has inserted, deleted or updated.
FtsApply(idx, before, after) ==
    LET ids(tbl) == {row.id : row \in tbl}
        kept == {e \in idx : e.rowid \in ids(after)}
        updated == {row \in after \ before : row.id \in ids(before)}
    IN  {IF \E row \in updated : row.id = e.rowid
         THEN [e EXCEPT !.file_name = (CHOOSE row \in updated : row.id = e.rowid).file_name]
         ELSE e : e \in kept}
        \cup {FtsEntry(row) : row \in {r \in after : r.id \notin ids(before)}}

\* The DO UPDATE of an upsert changes a row, and trigger images_fts_update
\* runs its UPDATE of the index, which fails: the statement throws and its
\* change is undone.
UpsertThrows(tbl, image) ==
    /\ \E row \in tbl : row.id = image.id /\ UpsertWhere(row, image)
    /\ ~FtsContentReadable

\* upsertImage with INSERT OR REPLACE in the place of its statement
UpsertImageOrReplace(tbl, image) ==
    {row \in tbl : row.id # image.id} \cup {image}

\* INSERT ... ON CONFLICT(id) DO UPDATE SET ... WHERE ...: the table after
\* the statement
UpsertImage(tbl, image) ==
    LET conflict == {row \in tbl : row.id = image.id}
    IN  IF UpsertThrows(tbl, image) THEN tbl
        ELSE IF conflict = {} THEN tbl \cup {image}
        ELSE (tbl \ conflict) \cup
             {IF UpsertWhere(row, image) THEN UpsertImageSet(row, image) ELSE row
                 : row \in conflict}

\* The DO UPDATE SET of upsertImagesBatch: no rating column.
UpsertBatchSet(row, excluded) ==
    [row EXCEPT !.file_size = excluded.file_size,
                !.width = excluded.width,
                !.height = excluded.height,
                !.modified_at = excluded.modified_at]

UpsertBatchStmt(tbl, image) ==
    LET conflict == {row \in tbl : row.id = image.id}
    IN  IF UpsertThrows(tbl, image) THEN tbl
        ELSE IF conflict = {} THEN tbl \cup {image}
        ELSE (tbl \ conflict) \cup
             {IF UpsertWhere(row, image) THEN UpsertBatchSet(row, image) ELSE row
                 : row \in conflict}

\* for (const image of images) stmt.run(...): the statements in list order,
\* up to the first that throws
RECURSIVE RunBatch(_, _)
RunBatch(tbl, recs) ==
    IF recs = <<>> THEN [images |-> tbl, ret |-> "ok"]
    ELSE IF UpsertThrows(tbl, Head(recs)) THEN [images |-> tbl, ret |-> "throw"]
    ELSE RunBatch(UpsertBatchStmt(tbl, Head(recs)), Tail(recs))

\* a transaction that commits what ran before the exception
TransactionCommitsAlways(before, out) == out.images

\* db.transaction(fn): COMMIT when fn returns, ROLLBACK when it throws
Transaction(before, out) ==
    IF out.ret = "throw" THEN before ELSE out.images

\* upsertImagesBatch(images): the table after the call
UpsertImagesBatch(tbl, recs) == Transaction(tbl, RunBatch(tbl, recs))

\* ORDER BY modified_at DESC; rows of equal modified_at come in any order
OrderByModifiedAsc(s) ==
    \A i, j \in 1..Len(s) : i < j => s[i].modified_at <= s[j].modified_at
OrderByModifiedDesc(s) ==
    \A i, j \in 1..Len(s) : i < j => s[i].modified_at >= s[j].modified_at

\* SELECT * FROM images WHERE project_id = ? ORDER BY modified_at DESC:
\* the set of the lists the statement may return
GetImagesByProject(tbl, projectId) ==
    LET hit == {row \in tbl : row.project_id = projectId}
        n == Cardinality(hit)
    IN  {s \in [1..n -> hit] :
            /\ \A i, j \in 1..n : i # j => s[i] # s[j]
            /\ OrderByModifiedDesc(s)}

(***************************************************************************)
(* Derivative Store: the files of one SidecarManager.  A source file is    *)
(* [mtime, width, height]; a derivative is what sharp writes: its size,    *)
(* quality and format, with the clock's time as mtime.                     *)
(***************************************************************************)
NoFile == <<>>

\* a directory is a function from the keys of the files it holds
FileAt(dir, key) == IF key \in DOMAIN dir THEN dir[key] ELSE NoFile
PutFile(dir, key, file) ==
    IF file = NoFile THEN [k \in DOMAIN dir \ {key} |-> dir[k]]
    ELSE [k \in DOMAIN dir \cup {key} |-> IF k = key THEN file ELSE dir[k]]
NoFiles == [k \in {} |-> NoFile]

Tiers == {"thumb", "standard", "full"}
Dims == {<<800, 600>>, <<1600, 1200>>, <<1200, 1601>>}

Max(a, b) == IF a >= b THEN a ELSE b
Round(num, den) == (2 * num + den) \div (2 * den)

\* Math.max(metadata.width || 0, metadata.height || 0)
maxDimension(src) == Max(src.width, src.height)

\* the preview edge of generateStandardPreview and generateFullSizePreview
PreviewEdge == 1600
ThumbEdge == 256

\* if (await fs.pathExists(p)) { ... if (derivStat.mtime >= imageStat.mtime) return p }
IsFreshNewerOnly(src, deriv) == deriv # NoFile /\ deriv.mtime > src.mtime
IsFresh(src, deriv) == deriv # NoFile /\ deriv.mtime >= src.mtime

\* resize(1600, 1600, { fit: 'inside', withoutEnlargement: true })
FitInside(src) ==
    LET m == maxDimension(src)
    IN  IF m <= PreviewEdge THEN <<src.width, src.height>>
        ELSE <<Round(src.width * PreviewEdge, m), Round(src.height * PreviewEdge, m)>>

Written(t, w, h, q, fmt) ==
    [mtime |-> t, width |-> w, height |-> h, quality |-> q, format |-> fmt]

\* Each generate call gives [file: the derivative file after the call,
\* ret: "path" | "null" | "throw", wrote: whether toFile ran].
\* a generate call that removes the derivative it does not rewrite
KeptRemoved(deriv, ret) == [file |-> NoFile, ret |-> ret, wrote |-> FALSE]
Kept(deriv, ret) == [file |-> deriv, ret |-> ret, wrote |-> FALSE]
Wrote(file) == [file |-> file, ret |-> "path", wrote |-> TRUE]

\* a generateThumbnail that returns the path without awaiting toFile
generateThumbnailUnawaited(src, deriv, t) ==
    IF src = NoFile THEN Kept(deriv, "throw") ELSE Kept(deriv, "path")

\* generateThumbnail(imagePath, imageName) at time t
generateThumbnail(src, deriv, t) ==
    IF src = NoFile THEN Kept(deriv, "throw")
    ELSE IF IsFresh(src, deriv) THEN Kept(deriv, "path")
    ELSE Wrote(Written(t, ThumbEdge, ThumbEdge, 75, "webp"))

\* generateStandardPreview(imagePath, imageName) at time t
generateStandardPreview(src, deriv, t) ==
    IF src = NoFile THEN Kept(deriv, "throw")
    ELSE IF IsFresh(src, deriv) THEN Kept(deriv, "path")
    ELSE LET quality == IF maxDimension(src) <= PreviewEdge THEN 92 ELSE 80
             size == FitInside(src)
         IN  Wrote(Written(t, size[1], size[2], quality, "jpeg"))

\* if (maxDimension <= 1600) return null
IsSmallBelowEdge(src) == maxDimension(src) < PreviewEdge
IsSmall(src) == maxDimension(src) <= PreviewEdge

\* generateFullSizePreview(imagePath, imageName) at time t
generateFullSizePreview(src, deriv, t) ==
    IF src = NoFile THEN Kept(deriv, "throw")
    ELSE IF IsSmall(src) THEN Kept(deriv, "null")
    ELSE IF IsFresh(src, deriv) THEN Kept(deriv, "path")
    ELSE Wrote(Written(t, src.width, src.height, 92, "jpeg"))

generate(tier, src, deriv, t) ==
    CASE tier = "thumb" -> generateThumbnail(src, deriv, t)
      [] tier = "standard" -> generateStandardPreview(src, deriv, t)
      [] tier = "full" -> generateFullSizePreview(src, deriv, t)

(***************************************************************************)
(* The records the Metadata Cache calls are tried on.  Origin 1 and 2 give *)
(* the insert-only columns, Scan 1 and 2 the columns a re-scan rewrites.   *)
(***************************************************************************)
DbIds == {PathJoin(FolderAB, "x.jpg"), PathJoin(FolderAB, "y.jpg"),
          PathJoin(FolderA_B, "x.jpg")}
Ratings == {0, 5}
Mtimes == 1..MaxMtime

DbRec(id, origin, scan, m, r) ==
    [id |-> id,
     project_id |-> IF origin = 1 THEN SanitizeId(FolderAB) ELSE SanitizeId(FolderC),
     file_path |-> IF origin = 1 THEN id ELSE PathJoin(FolderC, "x.jpg"),
     file_name |-> IF origin = 1 THEN id[Len(id)] ELSE "x.jpg",
     file_size |-> IF scan = 1 THEN 1000 ELSE 2000,
     width |-> IF scan = 1 THEN 800 ELSE 3000,
     height |-> IF scan = 1 THEN 600 ELSE 2000,
     created_at |-> origin,
     modified_at |-> m,
     rating |-> r]

DbRecs == {DbRec(id, o, s, m, r) : id \in DbIds, o \in 1..2, s \in 1..2,
                                   m \in Mtimes, r \in Ratings}

\* every table of rows with distinct ids
DbTables ==
    LET pick == [DbIds -> DbRecs \cup {<<>>}]
    IN  {{f[id] : id \in {i \in DbIds : f[i] # <<>> /\ f[i].id = i}} : f \in pick}

NoOp == [kind |-> "none"]

\* no diff over many files is running
NoDiffRun == [pc |-> "none"]

Folders == {FolderAB, FolderA_B, FolderC}

\* the main process when the application has started
\* ThumbnailServer before start(): private port: number = 0, no attempt made
NotStarted == [pc |-> "idle", port |-> 0, trying |-> 0, resolved |-> 0,
               inUse |-> {}, errors |-> {}]

EngineAtStart ==
    /\ store = <<>>
    /\ storeIssued = {}
    /\ albums = <<>>
    /\ handlers = {}
    /\ diffRun = NoDiffRun
    /\ watcher = 0
    /\ closedW = {}
    /\ sidecarManagers = <<>>
    /\ serverManagers = <<>>
    /\ sessions = <<>>
    /\ pipes = {}
    /\ bg = {}
    /\ events = {}
    /\ sent = <<>>
    /\ served = NoOp
    /\ listener = NotStarted

IdleEngine ==
    /\ EngineAtStart
    /\ work = 0

IdleDb ==
    /\ images = {}
    /\ imagesFts = {}
    /\ projects = {}
    /\ operationCount = 0
    /\ dbPre = {}
    /\ dbOp = NoOp
    /\ projCalls = <<>>

IdleFs ==
    /\ now = 0
    /\ srcFiles = NoFiles
    /\ derivs = NoFiles
    /\ generated = {}
    /\ scOp = NoOp
    /\ IdleEngine

InitDb ==
    /\ images \in DbTables
    /\ imagesFts = FtsOf(images)
    /\ projects = {}
    /\ operationCount \in {0, OptimizeEvery - 1}
    /\ dbPre = images
    /\ dbOp = NoOp
    /\ projCalls = <<>>
    /\ IdleFs

\* upsertImage(image)
DbUpsertImage ==
    /\ dbOp.kind = "none"
    /\ \E image \in DbRecs :
        /\ images' = UpsertImage(images, image)
        /\ dbOp' = [kind |-> "upsertImage", image |-> image,
                    ret |-> IF UpsertThrows(images, image) THEN "throw" ELSE "ok"]
        /\ operationCount' = IF UpsertThrows(images, image) THEN operationCount
                             ELSE checkOptimization(operationCount)
    /\ dbPre' = images
    /\ imagesFts' = FtsApply(imagesFts, images, images')
    /\ UNCHANGED <<projects, projCalls, fsVars, scObs, storeVars, engVars, diffRun>>

\* getImagesByProject(projectId)
DbGetImagesByProject ==
    /\ dbOp.kind = "none"
    /\ \E projectId \in {SanitizeId(FolderAB), SanitizeId(FolderC)} :
        \E result \in GetImagesByProject(images, projectId) :
            dbOp' = [kind |-> "getImagesByProject", projectId |-> projectId,
                     result |-> result]
    /\ dbPre' = images
    /\ UNCHANGED <<dbVars, projCalls, fsVars, scObs, storeVars, engVars, diffRun>>

NextDb == DbUpsertImage \/ DbGetImagesByProject

SpecDb == InitDb /\ [][NextDb]_vars

(***************************************************************************)
(* upsertImagesBatch, tried on the lists of at most MaxBatch records of a  *)
(* re-scan (Scan 2) over the tables of first scans (Scan 1).               *)
(***************************************************************************)
BatchIds == {PathJoin(FolderAB, "x.jpg"), PathJoin(FolderAB, "y.jpg")}
BatchRecs == {DbRec(id, 1, 2, m, r) : id \in BatchIds, m \in Mtimes, r \in Ratings}
BatchLists == UNION {[1..n -> BatchRecs] : n \in 0..MaxBatch}
BatchTables ==
    LET rows == {DbRec(id, 1, 1, m, r) : id \in BatchIds, m \in Mtimes, r \in Ratings}
        pick == [BatchIds -> rows \cup {<<>>}]
    IN  {{f[id] : id \in {i \in BatchIds : f[i] # <<>> /\ f[i].id = i}} : f \in pick}

InitDbBatch ==
    /\ images \in BatchTables
    /\ imagesFts = FtsOf(images)
    /\ projects = {}
    /\ operationCount \in {0, OptimizeEvery - 1}
    /\ dbPre = images
    /\ dbOp = NoOp
    /\ projCalls = <<>>
    /\ IdleFs

\* upsertImagesBatch(images)
DbUpsertImagesBatch ==
    /\ dbOp.kind = "none"
    /\ \E recs \in BatchLists :
        /\ images' = UpsertImagesBatch(images, recs)
        /\ dbOp' = [kind |-> "upsertImagesBatch", recs |-> recs,
                    ret |-> RunBatch(images, recs).ret]
        /\ operationCount' = IF RunBatch(images, recs).ret = "throw" THEN operationCount
                             ELSE checkOptimization(operationCount)
    /\ dbPre' = images
    /\ imagesFts' = FtsApply(imagesFts, images, images')
    /\ UNCHANGED <<projects, projCalls, fsVars, scObs, storeVars, engVars, diffRun>>

\* upsertImage(image), on the same tables and records
DbBatchUpsertImage ==
    /\ dbOp.kind = "none"
    /\ \E image \in BatchRecs :
        /\ images' = UpsertImage(images, image)
        /\ dbOp' = [kind |-> "upsertImage", image |-> image,
                    ret |-> IF UpsertThrows(images, image) THEN "throw" ELSE "ok"]
        /\ operationCount' = IF UpsertThrows(images, image) THEN operationCount
                             ELSE checkOptimization(operationCount)
    /\ dbPre' = images
    /\ imagesFts' = FtsApply(imagesFts, images, images')
    /\ UNCHANGED <<projects, projCalls, fsVars, scObs, storeVars, engVars, diffRun>>

NextDbBatch == DbUpsertImagesBatch \/ DbBatchUpsertImage

SpecDbBatch == InitDbBatch /\ [][NextDbBatch]_vars

(***************************************************************************)
(* The Derivative Store of one folder, on one source file: the file is     *)
(* written and rewritten from outside (with any mtime a copy, a camera or  *)
(* utimes may give it), the clock advances, and the three tiers are        *)
(* generated in any order, any number of times.                            *)
(***************************************************************************)
ScFolder == FolderAB
ScName == "x.jpg"
ScSrc == <<ScFolder, ScName>>

InitSidecar ==
    /\ IdleDb
    /\ IdleFs

\* the source file is created or replaced from outside
ScSourceWritten ==
    /\ \E m \in 0..MaxClock, d \in Dims :
        srcFiles' = PutFile(srcFiles, ScSrc,
                            [mtime |-> m, width |-> d[1], height |-> d[2]])
    /\ generated' = {}
    /\ scOp' = NoOp
    /\ UNCHANGED <<dbVars, dbObs, projCalls, now, derivs, storeVars, engVars, diffRun>>

ScTick ==
    /\ now < MaxClock
    /\ now' = now + 1
    /\ scOp' = NoOp
    /\ UNCHANGED <<dbVars, dbObs, projCalls, srcFiles, derivs, generated, storeVars, engVars,
                   diffRun>>

\* one call of generateThumbnail, generateStandardPreview or
\* generateFullSizePreview for the source file
ScGenerate(tier) ==
    LET key == <<ScFolder, ScName, tier>>
        out == generate(tier, FileAt(srcFiles, ScSrc), FileAt(derivs, key), now)
    IN  /\ ScSrc \in DOMAIN srcFiles
        /\ derivs' = PutFile(derivs, key, out.file)
        /\ generated' = generated \cup {key}
        /\ scOp' = [kind |-> "generate", tier |-> tier, ret |-> out.ret,
                    wrote |-> out.wrote, before |-> FileAt(derivs, key),
                    again |-> key \in generated]
        /\ UNCHANGED <<dbVars, dbObs, projCalls, now, srcFiles, storeVars, engVars,
                       diffRun>>

ScGenerateThumbnail == ScGenerate("thumb")
ScGenerateStandardPreview == ScGenerate("standard")
ScGenerateFullSizePreview == ScGenerate("full")

NextSidecar ==
    \/ ScSourceWritten
    \/ ScTick
    \/ ScGenerateThumbnail
    \/ ScGenerateStandardPreview
    \/ ScGenerateFullSizePreview

SpecSidecar == InitSidecar /\ [][NextSidecar]_vars

(***************************************************************************)
(* upsertProject as the start-watching handler calls it, for any folder at *)
(* any time: the id is the sanitised path, the name the folder's basename. *)
(***************************************************************************)
InitProject ==
    /\ IdleDb
    /\ IdleFs

NoteCall(calls, id, t) ==
    [k \in DOMAIN calls \cup {id} |->
        IF k = id
        THEN [first |-> IF id \in DOMAIN calls THEN calls[id].first ELSE t, last |-> t]
        ELSE calls[k]]

\* dbManager.upsertProject(projectId, projectName, folderPath)
PjUpsertProject ==
    /\ \E folderPath \in Folders :
        LET projectId == SanitizeId(folderPath)
        IN  /\ projects' = UpsertProject(projects, projectId, Basename(folderPath),
                                         folderPath, now)
            /\ projCalls' = NoteCall(projCalls, projectId, now)
    /\ UNCHANGED <<images, imagesFts, operationCount, dbObs, fsVars, scObs, storeVars, engVars,
                   diffRun>>

PjTick ==
    /\ now < MaxClock
    /\ now' = now + 1
    /\ UNCHANGED <<dbVars, dbObs, projCalls, srcFiles, derivs, scObs, storeVars, engVars,
                   diffRun>>

NextProject == PjUpsertProject \/ PjTick

SpecProject == InitProject /\ [][NextProject]_vars

(***************************************************************************)
(* Reconciliation Engine: the main process.  Each action is one turn of    *)
(* the event loop: the code from one resumption to the next await.         *)
(***************************************************************************)
MapPut(map, key, value) ==
    [k \in DOMAIN map \cup {key} |-> IF k = key THEN value ELSE map[k]]

Min(a, b) == IF a <= b THEN a ELSE b
Range(s) == {s[k] : k \in 1..Len(s)}
Perms(S) ==
    {s \in [1..Cardinality(S) -> S] : \A i, j \in 1..Cardinality(S) : i # j => s[i] # s[j]}

\* const batchSize = 10
BatchSize == 10

\* the pictures that come from outside: x.jpg is 3000x2000, y.jpg 800x600,
\* and a picture written again has another size in bytes
Picture(name) ==
    IF name = "x.jpg" THEN [width |-> 3000, height |-> 2000]
    ELSE [width |-> 800, height |-> 600]

Sizes == {1000, 2000}

\* a picture as it lies in a folder
SourceFile(name, t) ==
    [mtime |-> t, birth |-> t, width |-> Picture(name).width,
     height |-> Picture(name).height, size |-> 1000]

NoManager == [folderPath |-> <<>>, by |-> 0]

\* a start-watching call that has just been received; closes is the session
\* whose watcher was open when the call came (line 181), 0 when none was
\* and diff is how the setImmediate callback of line 217 has ended, if it has
NewSession(folderPath) ==
    [folder |-> folderPath, projectId |-> SanitizeId(folderPath),
     manager |-> NoManager, pc |-> "closing", cached |-> <<>>, found |-> 0,
     workAt |-> work + 1, imageFiles |-> {}, newFiles |-> <<>>, i |-> 0,
     ready |-> FALSE, closes |-> 0, diff |-> "running"]

\* the sessions whose watcher exists and was not closed
OpenWatchers ==
    {w \in 1..Len(sessions) :
        sessions[w].pc \in {"readdir", "batch", "watching"} /\ w \notin closedW}

\* the display record of processImageWithSidecar's try block
DisplayRecord(folderPath, fileName, projectId, src) ==
    [kind |-> "file-added", id |-> PathJoin(folderPath, fileName), name |-> fileName,
     thumbnail |-> <<"thumb", projectId, fileName>>,
     url |-> <<"preview", projectId, fileName>>,
     width |-> src.width, height |-> src.height, rating |-> 0]

\* a record of the catch block with the server's urls of the try block
DegradedRecordServerUrls(folderPath, fileName) ==
    [kind |-> "file-added", id |-> PathJoin(folderPath, fileName), name |-> fileName,
     thumbnail |-> <<"thumb", SanitizeId(folderPath), fileName>>,
     url |-> <<"preview", SanitizeId(folderPath), fileName>>,
     width |-> 0, height |-> 0, rating |-> 0]

\* the display record of its catch block
DegradedRecord(folderPath, fileName) ==
    [kind |-> "file-added", id |-> PathJoin(folderPath, fileName), name |-> fileName,
     thumbnail |-> <<"file", PathJoin(folderPath, fileName)>>,
     url |-> <<"file", PathJoin(folderPath, fileName)>>,
     width |-> 0, height |-> 0, rating |-> 0]

\* the record upsertImage is called with
ImageRow(folderPath, fileName, projectId, src) ==
    [id |-> PathJoin(folderPath, fileName), project_id |-> projectId,
     file_path |-> PathJoin(folderPath, fileName), file_name |-> fileName,
     file_size |-> src.size, width |-> src.width, height |-> src.height,
     created_at |-> src.birth, modified_at |-> src.mtime, rating |-> 0]

\* The DELETE deletes a row, and trigger images_fts_delete runs its DELETE
\* on the index, which fails: the statement throws and its change is undone.
DeleteThrows(tbl, fileName, projectId) ==
    /\ \E row \in tbl : row.file_name = fileName /\ row.project_id = projectId
    /\ ~FtsContentReadable

\* DELETE FROM images WHERE file_name = ? AND project_id = ?: the table after
\* the statement
DeleteImage(tbl, fileName, projectId) ==
    IF DeleteThrows(tbl, fileName, projectId) THEN tbl
    ELSE {row \in tbl : ~(row.file_name = fileName /\ row.project_id = projectId)}

\* new Set(cachedImages.map(i => i.name)): the names in order, each once
CachedNames(S) ==
    LET names == [k \in 1..Len(S.cached) |-> S.cached[k].file_name]
        first(k) == \A j \in 1..(k - 1) : names[j] # names[k]
        keep == {k \in 1..Len(names) : first(k)}
        RECURSIVE pick(_)
        pick(k) == IF k > Len(names) THEN <<>>
                   ELSE IF k \in keep THEN <<names[k]>> \o pick(k + 1)
                   ELSE pick(k + 1)
    IN  pick(1)

\* observation: a message to the renderer, with the session that sent it and
\* the number of start-watching calls received when it was sent
Tag(msg, sid) ==
    [f \in DOMAIN msg \cup {"by", "calls"} |->
        IF f = "by" THEN sid ELSE IF f = "calls" THEN Len(sessions) ELSE msg[f]]

\* for (const delName of deletedFiles): the row is deleted and the renderer
\* notified, name by name; a statement that throws ends the diff's callback
\* (nothing catches it), with the names that follow left as they are.
RECURSIVE DeleteLoop(_, _, _, _, _)
DeleteLoop(tbl, names, projectId, sid, snt) ==
    IF names = <<>> THEN [images |-> tbl, sent |-> snt, ret |-> "ok"]
    ELSE IF DeleteThrows(tbl, Head(names), projectId)
    THEN [images |-> tbl, sent |-> snt, ret |-> "throw"]
    ELSE DeleteLoop(DeleteImage(tbl, Head(names), projectId), Tail(names), projectId, sid,
                    Append(snt, Tag([kind |-> "file-removed", name |-> Head(names),
                                     projectId |-> projectId], sid)))

\* The diff from the head of its batch loop (i = S.i) to its next await:
\* it starts the pipelines of the next batch, or, past the last batch,
\* deletes the rows of the vanished files and notifies the renderer.
DiffLoop(sid, S, imgs, snt, pps) ==
    IF S.i < Len(S.newFiles)
    THEN LET batch == SubSeq(S.newFiles, S.i + 1, Min(S.i + BatchSize, Len(S.newFiles)))
         IN  [session |-> [S EXCEPT !.pc = "batch"], images |-> imgs, sent |-> snt,
              pipes |-> pps \cup {[sid |-> sid, origin |-> "diff", name |-> batch[k],
                                   n |-> k, pc |-> "thumb", rec |-> <<>>]
                                     : k \in 1..Len(batch)}]
    ELSE LET deletedFiles == SelectSeq(CachedNames(S), LAMBDA nm : nm \notin S.imageFiles)
             out == DeleteLoop(imgs, deletedFiles, S.projectId, sid, snt)
         IN  [session |-> [S EXCEPT !.pc = "watching", !.cached = <<>>,
                                     !.imageFiles = {}, !.newFiles = <<>>, !.i = 0,
                                     !.diff = IF out.ret = "throw" THEN "threw" ELSE "done"],
              images |-> out.images,
              sent |-> out.sent,
              pipes |-> pps]

\* processImageWithSidecar returns rec: the watcher's handler sends it at
\* once; the diff sends the batch's records, in batch order, when the last
\* pipeline of the batch has returned, and goes on with its loop.
Returned(p, rec, imgs) ==
    LET S == sessions[p.sid]
        rest == pipes \ {p}
        batch == {q \in rest : q.sid = p.sid /\ q.origin = "diff"}
    IN  IF p.origin = "watch"
        THEN [session |-> S, images |-> imgs, sent |-> Append(sent, Tag(rec, p.sid)), pipes |-> rest]
        ELSE IF \E q \in batch : q.pc # "returned"
        THEN [session |-> S, images |-> imgs, sent |-> sent,
              pipes |-> rest \cup {[p EXCEPT !.pc = "returned", !.rec = rec]}]
        ELSE LET all == batch \cup {[p EXCEPT !.rec = rec]}
                 recs == [k \in 1..Cardinality(all) |->
                             Tag((CHOOSE q \in all : q.n = k).rec, p.sid)]
             IN  DiffLoop(p.sid, [S EXCEPT !.i = S.i + BatchSize], imgs,
                          sent \o recs, rest \ batch)

\* Lines 197-266 of the handler: the managers are registered when new, the
\* project is upserted, the cached rows are read, the diff is scheduled and
\* the new watcher replaces the old one.
Register(base, sid, manager, isNew) ==
    LET S == base[sid]
    IN  /\ sidecarManagers' = IF isNew THEN MapPut(sidecarManagers, S.projectId, manager)
                              ELSE sidecarManagers
        /\ serverManagers' = IF isNew THEN MapPut(serverManagers, S.projectId, manager)
                             ELSE serverManagers
        /\ projects' = UpsertProject(projects, S.projectId, Basename(S.folder),
                                     S.folder, now)
        /\ \E cachedImages \in GetImagesByProject(images, S.projectId) :
            sessions' = [base EXCEPT ![sid] = [S EXCEPT !.pc = "readdir",
                                                        !.manager = manager,
                                                        !.cached = cachedImages,
                                                        !.found = Len(cachedImages)]]
        /\ watcher' = sid

\* Lines 185-195: the project's SidecarManager is looked up; a new one is
\* constructed and its initialize() awaited when there is none.
Lookup(base, sid) ==
    LET S == base[sid]
    IN  IF S.projectId \in DOMAIN sidecarManagers
        THEN Register(base, sid, sidecarManagers[S.projectId], FALSE)
        ELSE /\ sessions' = [base EXCEPT ![sid] =
                                [S EXCEPT !.pc = "init",
                                          !.manager = [folderPath |-> S.folder, by |-> sid]]]
             /\ UNCHANGED <<sidecarManagers, serverManagers, projects, watcher>>

\* ipcMain.handle('start-watching'): if (watcher) await watcher.close()
StartWatching ==
    /\ Len(sessions) < MaxCalls
    /\ work < MaxWork
    /\ work' = work + 1
    /\ \E folderPath \in Folders :
        LET base == Append(sessions, [NewSession(folderPath) EXCEPT
                                         !.closes = IF watcher \in OpenWatchers
                                                    THEN watcher ELSE 0])
            sid == Len(base)
        IN  IF watcher # 0
            THEN /\ closedW' = closedW \cup {watcher}
                 /\ events' = {e \in events : e[1] # watcher}
                 /\ sessions' = base
                 /\ UNCHANGED <<sidecarManagers, serverManagers, projects, watcher>>
            ELSE /\ Lookup(base, sid)
                 /\ UNCHANGED <<closedW, events>>
    /\ UNCHANGED <<images, imagesFts, operationCount, dbObs, projCalls, fsVars, scObs, storeVars,
                   pipes, bg, sent, served, listener, diffRun>>

\* watcher.close() has resolved
SwClosed ==
    /\ \E sid \in 1..Len(sessions) :
        /\ sessions[sid].pc = "closing"
        /\ Lookup(sessions, sid)
    /\ UNCHANGED <<images, imagesFts, operationCount, dbObs, projCalls, fsVars, scObs, storeVars,
                   closedW, events, pipes, bg, sent, served, listener, work, diffRun>>

\* sidecarManager.initialize() has resolved
SwInitialized ==
    /\ \E sid \in 1..Len(sessions) :
        /\ sessions[sid].pc = "init"
        /\ Register(sessions, sid, sessions[sid].manager, TRUE)
    /\ UNCHANGED <<images, imagesFts, operationCount, dbObs, projCalls, fsVars, scObs, storeVars,
                   closedW, events, pipes, bg, sent, served, listener, work, diffRun>>

\* the diff: fs.readdir has resolved
DiffReaddir ==
    /\ \E sid \in 1..Len(sessions) :
        LET S == sessions[sid]
            imageFiles == {nm \in Names : <<S.folder, nm>> \in DOMAIN srcFiles}
            existingSet == Range(CachedNames(S))
        IN  /\ S.pc = "readdir"
            /\ \E newFiles \in Perms(imageFiles \ existingSet) :
                LET out == DiffLoop(sid, [S EXCEPT !.imageFiles = imageFiles,
                                                   !.newFiles = newFiles, !.i = 0],
                                    images, sent, pipes)
                IN  /\ sessions' = [sessions EXCEPT ![sid] = out.session]
                    /\ images' = out.images
                    /\ sent' = out.sent
                    /\ pipes' = out.pipes
    /\ imagesFts' = FtsApply(imagesFts, images, images')
    /\ UNCHANGED <<projects, operationCount, dbObs, projCalls, fsVars, scObs, storeVars,
                   watcher, closedW, sidecarManagers, serverManagers, bg, events,
                   served, listener, work, diffRun>>

\* processImageWithSidecar: await sidecarManager.generateThumbnail(fullPath, fileName)
PipeThumbnail ==
    /\ \E p \in pipes :
        LET S == sessions[p.sid]
            key == <<S.manager.folderPath, p.name, "thumb">>
            got == generateThumbnail(FileAt(srcFiles, <<S.folder, p.name>>),
                                     FileAt(derivs, key), now)
        IN  /\ p.pc = "thumb"
            /\ IF got.ret = "throw"
               THEN LET out == Returned(p, DegradedRecord(S.folder, p.name), images)
                    IN  /\ sessions' = [sessions EXCEPT ![p.sid] = out.session]
                        /\ images' = out.images
                        /\ sent' = out.sent
                        /\ pipes' = out.pipes
                        /\ UNCHANGED derivs
               ELSE /\ derivs' = PutFile(derivs, key, got.file)
                    /\ pipes' = (pipes \ {p}) \cup {[p EXCEPT !.pc = "meta"]}
                    /\ UNCHANGED <<sessions, images, sent>>
    /\ imagesFts' = FtsApply(imagesFts, images, images')
    /\ UNCHANGED <<projects, operationCount, dbObs, projCalls, now, srcFiles, scObs,
                   storeVars, watcher, closedW, sidecarManagers, serverManagers, bg,
                   events, served, listener, work, diffRun>>

\* processImageWithSidecar with the previews scheduled ahead of the metadata
\* read and the upsert: they are scheduled also when the upsert is never reached
PipeUpsertSchedulesFirst ==
    /\ \E p \in pipes :
        LET S == sessions[p.sid]
            src == FileAt(srcFiles, <<S.folder, p.name>>)
            throws == src = NoFile
                      \/ UpsertThrows(images, ImageRow(S.folder, p.name, S.projectId, src))
            out == IF throws
                   THEN Returned(p, DegradedRecord(S.folder, p.name), images)
                   ELSE Returned(p, DisplayRecord(S.folder, p.name, S.projectId, src),
                                 UpsertImage(images,
                                             ImageRow(S.folder, p.name, S.projectId, src)))
        IN  /\ p.pc = "meta"
            /\ sessions' = [sessions EXCEPT ![p.sid] = out.session]
            /\ images' = out.images
            /\ sent' = out.sent
            /\ pipes' = out.pipes
            /\ operationCount' = IF throws THEN operationCount
                                 ELSE checkOptimization(operationCount)
            /\ bg' = bg \cup {[folder |-> S.folder, name |-> p.name,
                               manager |-> S.manager, pc |-> "standard"]}
    /\ imagesFts' = FtsApply(imagesFts, images, images')
    /\ UNCHANGED <<projects, dbObs, projCalls, fsVars, scObs, storeVars, watcher,
                   closedW, sidecarManagers, serverManagers, events, served, listener, work,
                   diffRun>>

\* processImageWithSidecar from sharp(fullPath).metadata() to its return:
\* no metadata sidecar is ever saved, so loadMetadata gives null and the
\* rating is 0; the row is upserted and the previews are scheduled.  When
\* the file is gone, or the upsert throws, the catch block gives the record.
PipeUpsert ==
    /\ \E p \in pipes :
        LET S == sessions[p.sid]
            src == FileAt(srcFiles, <<S.folder, p.name>>)
            throws == src = NoFile
                      \/ UpsertThrows(images, ImageRow(S.folder, p.name, S.projectId, src))
        IN  /\ p.pc = "meta"
            /\ IF throws
               THEN LET out == Returned(p, DegradedRecord(S.folder, p.name), images)
                    IN  /\ sessions' = [sessions EXCEPT ![p.sid] = out.session]
                        /\ images' = out.images
                        /\ sent' = out.sent
                        /\ pipes' = out.pipes
                        /\ UNCHANGED <<operationCount, bg>>
               ELSE LET row == ImageRow(S.folder, p.name, S.projectId, src)
                        out == Returned(p, DisplayRecord(S.folder, p.name, S.projectId, src),
                                        UpsertImage(images, row))
                    IN  /\ sessions' = [sessions EXCEPT ![p.sid] = out.session]
                        /\ images' = out.images
                        /\ sent' = out.sent
                        /\ pipes' = out.pipes
                        /\ operationCount' = checkOptimization(operationCount)
                        /\ bg' = bg \cup {[folder |-> S.folder, name |-> p.name,
                                           manager |-> S.manager, pc |-> "standard"]}
    /\ imagesFts' = FtsApply(imagesFts, images, images')
    /\ UNCHANGED <<projects, dbObs, projCalls, fsVars, scObs, storeVars, watcher,
                   closedW, sidecarManagers, serverManagers, events, served, listener, work,
                   diffRun>>

\* the background task: await sidecarManager.generateStandardPreview(...)
BgStandardPreview ==
    /\ \E b \in bg :
        LET key == <<b.manager.folderPath, b.name, "standard">>
            got == generateStandardPreview(FileAt(srcFiles, <<b.folder, b.name>>),
                                           FileAt(derivs, key), now)
        IN  /\ b.pc = "standard"
            /\ derivs' = PutFile(derivs, key, got.file)
            /\ bg' = IF got.ret = "throw" THEN bg \ {b}
                     ELSE (bg \ {b}) \cup {[b EXCEPT !.pc = "full"]}
    /\ UNCHANGED <<dbVars, dbObs, projCalls, now, srcFiles, scObs, storeVars, watcher,
                   closedW, sidecarManagers, serverManagers, sessions, pipes, events,
                   sent, served, listener, work, diffRun>>

\* the background task: await sidecarManager.generateFullSizePreview(...)
BgFullSizePreview ==
    /\ \E b \in bg :
        LET key == <<b.manager.folderPath, b.name, "full">>
            got == generateFullSizePreview(FileAt(srcFiles, <<b.folder, b.name>>),
                                           FileAt(derivs, key), now)
        IN  /\ b.pc = "full"
            /\ derivs' = PutFile(derivs, key, got.file)
            /\ bg' = bg \ {b}
    /\ UNCHANGED <<dbVars, dbObs, projCalls, now, srcFiles, scObs, storeVars, watcher,
                   closedW, sidecarManagers, serverManagers, sessions, pipes, events,
                   sent, served, listener, work, diffRun>>

\* watcher.on('add', ...): a new image file is reported to an open watcher
WatchAdd ==
    /\ \E e \in events :
        /\ e[1] \in OpenWatchers
        /\ events' = events \ {e}
        /\ pipes' = pipes \cup {[sid |-> e[1], origin |-> "watch", name |-> e[2],
                                 n |-> e[3], pc |-> "thumb", rec |-> <<>>]}
    /\ UNCHANGED <<dbVars, dbObs, projCalls, fsVars, scObs, storeVars, watcher, closedW,
                   sidecarManagers, serverManagers, sessions, bg, sent, served, listener, work,
                   diffRun>>

(***************************************************************************)
(* The folders, changed from outside.  A file is written with the clock's  *)
(* time, and the clock has advanced since the last write or it has not.    *)
(* chokidar reports a created file to the open watchers of its folder; the *)
(* handler listens to 'add' alone.  With ignoreInitial a watcher reports   *)
(* the files created after its own first read of the folder, which it      *)
(* makes at some time after chokidar.watch() has returned, before or after *)
(* the diff's fs.readdir: a session is ready once a file is known to have  *)
(* been created after that read.                                           *)
(***************************************************************************)
WriteTimes == {now, now + 1}

\* the open watchers of a folder
WatchersOf(folderPath) == {v \in OpenWatchers : sessions[v].folder = folderPath}

FsCreate ==
    /\ work + 2 <= MaxWork
    /\ \E folderPath \in Folders, nm \in Names, t \in WriteTimes :
        /\ <<folderPath, nm>> \notin DOMAIN srcFiles
        /\ now' = t
        /\ srcFiles' = PutFile(srcFiles, <<folderPath, nm>>, SourceFile(nm, t))
        /\ \E seen \in SUBSET WatchersOf(folderPath) :
            /\ \A v \in WatchersOf(folderPath) : sessions[v].ready => v \in seen
            /\ events' = events \cup {<<w, nm, work + 2>> : w \in seen}
            /\ sessions' = [v \in 1..Len(sessions) |->
                                IF v \in seen THEN [sessions[v] EXCEPT !.ready = TRUE]
                                ELSE sessions[v]]
    /\ work' = work + 2
    /\ UNCHANGED <<dbVars, dbObs, projCalls, derivs, scObs, storeVars, watcher,
                   closedW, sidecarManagers, serverManagers, pipes, bg, sent,
                   served, listener, diffRun>>

\* the file is written again
FsModify ==
    /\ work < MaxWork
    /\ \E key \in DOMAIN srcFiles, t \in WriteTimes :
        /\ now' = t
        /\ srcFiles' = PutFile(srcFiles, key,
                               [srcFiles[key] EXCEPT
                                   !.mtime = t,
                                   !.size = CHOOSE z \in Sizes : z # srcFiles[key].size])
    /\ work' = work + 1
    /\ UNCHANGED <<dbVars, dbObs, projCalls, derivs, scObs, storeVars, watcher,
                   closedW, sidecarManagers, serverManagers, sessions, pipes, bg, events,
                   sent, served, listener, diffRun>>

FsDelete ==
    /\ work < MaxWork
    /\ \E key \in DOMAIN srcFiles :
        srcFiles' = PutFile(srcFiles, key, NoFile)
    /\ work' = work + 1
    /\ UNCHANGED <<dbVars, dbObs, projCalls, now, derivs, scObs, storeVars, watcher,
                   closedW, sidecarManagers, serverManagers, sessions, pipes, bg, events,
                   sent, served, listener, diffRun>>

\* The application starts with an empty cache, no derivative and no watcher;
\* the folders hold copies of some of the pictures already.  A behaviour is
\* bounded by its work: the pictures, the calls and the changes from outside.
InitEngine(budget) ==
    /\ IdleDb
    /\ now = 0
    /\ \E held \in SUBSET Names :
        /\ srcFiles = [key \in Folders \X held |-> SourceFile(key[2], 0)]
        /\ work = Cardinality(held) + (MaxWork - budget)
    /\ derivs = NoFiles
    /\ generated = {}
    /\ scOp = NoOp
    /\ EngineAtStart

Init == InitEngine(MaxWork)

Next ==
    \/ StartWatching
    \/ SwClosed
    \/ SwInitialized
    \/ DiffReaddir
    \/ PipeThumbnail
    \/ PipeUpsert
    \/ BgStandardPreview
    \/ BgFullSizePreview
    \/ WatchAdd
    \/ FsCreate
    \/ FsModify
    \/ FsDelete

Spec == Init /\ [][Next]_vars

(***************************************************************************)
(* Derivative Server: one GET request, answered from the files of the      *)
(* project's registered SidecarManager.                                    *)
(***************************************************************************)
Routes == {"thumb", "preview", "standard", "full"}
ProjectIds == {SanitizeId(folderPath) : folderPath \in Folders}

NotFound(route, projectId, name) ==
    [kind |-> "get", route |-> route, projectId |-> projectId, name |-> name,
     status |-> 404, tier |-> "none", folderPath |-> <<>>, file |-> NoFile]

\* res.setHeader(...); fs.createReadStream(path).pipe(res)
Streamed(route, projectId, name, manager, tier) ==
    [kind |-> "get", route |-> route, projectId |-> projectId, name |-> name,
     status |-> 200, tier |-> tier, folderPath |-> manager.folderPath,
     file |-> FileAt(derivs, <<manager.folderPath, name, tier>>)]

\* a route that streams without asking fs.pathExists
ExistsUnchecked(manager, name, tier) == TRUE

\* fs.pathExists of the manager's file of that tier; nothing writes a
\* .preview.jpg file
Exists(manager, name, tier) ==
    FileAt(derivs, <<manager.folderPath, name, tier>>) # NoFile

\* routes that all fall back to the standard preview, as /full does
RespondFallbackAll(route, projectId, name) ==
    IF projectId \notin DOMAIN serverManagers THEN NotFound(route, projectId, name)
    ELSE LET manager == serverManagers[projectId]
         IN  IF Exists(manager, name, route)
             THEN Streamed(route, projectId, name, manager, route)
             ELSE IF Exists(manager, name, "standard")
             THEN Streamed(route, projectId, name, manager, "standard")
             ELSE NotFound(route, projectId, name)

Respond(route, projectId, name) ==
    IF projectId \notin DOMAIN serverManagers THEN NotFound(route, projectId, name)
    ELSE LET manager == serverManagers[projectId]
         IN  IF Exists(manager, name, route)
             THEN Streamed(route, projectId, name, manager, route)
             ELSE IF route = "full" /\ Exists(manager, name, "standard")
             THEN Streamed(route, projectId, name, manager, "standard")
             ELSE NotFound(route, projectId, name)

ServeRequest ==
    /\ \E route \in Routes, projectId \in ProjectIds, name \in Names :
        served' = Respond(route, projectId, name)
    /\ UNCHANGED <<dbVars, dbObs, projCalls, fsVars, scObs, storeVars, watcher, closedW,
                   sidecarManagers, serverManagers, sessions, pipes, bg, events, sent,
                   listener, work, diffRun>>

InitServer == InitEngine(MaxServerWork)

NextServer ==
    \/ Next
    \/ ServeRequest

SpecServer == InitServer /\ [][NextServer]_vars

(***************************************************************************)
(* The project store of the main process, and the renderer's add and       *)
(* remove of a folder.                                                     *)
(***************************************************************************)
StorePaths == {store[k].path : k \in 1..Len(store)}

\* the renderer's album of a project
Album(project) == [id |-> project.id, path |-> project.path]
AlbumPaths(list) == {list[k].path : k \in 1..Len(list)}

\* Store.addProject(projectPath) at time t
NewProject(projectPath, t) ==
    [id |-> <<"proj-", t>>, name |-> Basename(projectPath), path |-> projectPath,
     createdAt |-> t]

\* handleAddFolder run from its click to its end with no other call of the
\* renderer in flight: Store.addProject is called for a folder that is not
\* among the albums, and the album of the new project is appended
AddProject ==
    /\ work < MaxWork
    /\ work' = work + 1
    /\ handlers = {}
    /\ \E projectPath \in Folders \ AlbumPaths(albums) :
        LET newProject == NewProject(projectPath, now)
        IN  /\ store' = Append(store, newProject)
            /\ storeIssued' = storeIssued \cup {[path |-> projectPath, id |-> newProject.id]}
            /\ albums' = Append(albums, Album(newProject))
    /\ UNCHANGED handlers
    /\ UNCHANGED <<dbVars, dbObs, projCalls, fsVars, scObs, watcher, closedW,
                   sidecarManagers, serverManagers, sessions, pipes, bg, events, sent,
                   served, listener, diffRun>>

\* handleRemoveFolder(id) of an album: Store.removeProject, and the
\* 'remove-project' handler calls nothing else; the album is dropped
RemoveProject ==
    /\ \E k \in 1..Len(albums) :
        /\ store' = SelectSeq(store, LAMBDA project : project.id # albums[k].id)
        /\ albums' = SelectSeq(albums, LAMBDA album : album.id # albums[k].id)
    /\ UNCHANGED <<dbVars, dbObs, projCalls, fsVars, scObs, storeIssued, handlers,
                   engVars, diffRun>>

\* Date.now() advances
StoreTick ==
    /\ now < MaxClock
    /\ now' = now + 1
    /\ UNCHANGED <<dbVars, dbObs, projCalls, srcFiles, derivs, scObs, storeVars, engVars,
                   diffRun>>

\* the application at its first start; the folders hold no picture
InitStore ==
    /\ IdleDb
    /\ IdleFs

NextStore ==
    \/ AddProject
    \/ RemoveProject
    \/ StoreTick
    \/ StartWatching
    \/ SwClosed
    \/ SwInitialized
    \/ DiffReaddir

SpecStore == InitStore /\ [][NextStore]_vars

(***************************************************************************)
(* The application started again.  The cache database and the derivative   *)
(* files are on disk and outlive the process; the watcher, the managers    *)
(* and the sessions do not.  In the earlier run one or two folders, each   *)
(* holding x.jpg, were scanned to the end from an empty cache (two of them *)
(* by calls that overlapped), as Spec does.                                *)
(***************************************************************************)
EarlierScans == {scanned \in SUBSET Folders : Cardinality(scanned) \in 1..2}

\* the rows the earlier run's pipelines have upserted
EarlierRows(scanned) ==
    {ImageRow(folderPath, "x.jpg", SanitizeId(folderPath), SourceFile("x.jpg", 0))
        : folderPath \in scanned}

\* the derivatives they have written, each manager under its own folder
EarlierDerivs(scanned) ==
    [key \in scanned \X {"x.jpg"} \X Tiers |->
        generate(key[3], SourceFile("x.jpg", 0), NoFile, 0).file]

RECURSIVE EarlierProjects(_)
EarlierProjects(order) ==
    IF order = <<>> THEN {}
    ELSE UpsertProject(EarlierProjects(Tail(order)), SanitizeId(Head(order)),
                       Basename(Head(order)), Head(order), 0)

\* the state of Spec in which the earlier run ended
EarlierRunEnded(scanned) ==
    /\ images = EarlierRows(scanned)
    /\ derivs = EarlierDerivs(scanned)
    /\ \E order \in Perms(scanned) : projects = EarlierProjects(order)
    /\ pipes = {}
    /\ bg = {}
    /\ \A sid \in 1..Len(sessions) : sessions[sid].pc = "watching"

InitRescan ==
    /\ \E scanned \in EarlierScans :
        /\ images = EarlierRows(scanned)
        /\ imagesFts = FtsOf(images)
        /\ derivs = EarlierDerivs(scanned)
        /\ \E order \in Perms(scanned) : projects = EarlierProjects(order)
    /\ srcFiles = [key \in Folders \X {"x.jpg"} |-> SourceFile("x.jpg", 0)]
    /\ operationCount = 0
    /\ dbPre = {}
    /\ dbOp = NoOp
    /\ projCalls = <<>>
    /\ now = 0
    /\ generated = {}
    /\ scOp = NoOp
    /\ EngineAtStart
    /\ work = MaxWork - MaxRescanWork

SpecRescan == InitRescan /\ [][Next]_vars

\* The steps of the main process itself: resolved promises, setImmediate
\* callbacks and delivered watcher events.  Node's event loop runs every
\* one of them in the end; the calls of the renderer and the changes from
\* outside may or may not come.
EngineStep ==
    \/ SwClosed
    \/ SwInitialized
    \/ DiffReaddir
    \/ PipeThumbnail
    \/ PipeUpsert
    \/ BgStandardPreview
    \/ BgFullSizePreview
    \/ WatchAdd

SpecRescanFair == SpecRescan /\ WF_vars(EngineStep)

(***************************************************************************)
(* Inside a derivative's write.  sharp's toFile(path) is given the         *)
(* derivative's own path: the file is opened there and filled while the    *)
(* call is awaited, and no temporary file is renamed over it.  The folder  *)
(* is registered with the server, which answers requests meanwhile.  (The  *)
(* engine above takes a write as one step.)                                *)
(***************************************************************************)
WrManager == [folderPath |-> ScFolder, by |-> 1]
MaxWrites == 1

\* the destination while toFile is filling it
Partial(t) == [mtime |-> t, partial |-> TRUE]
IsComplete(file) == "partial" \notin DOMAIN file

\* start-watching has run on the folder, which held no picture
InitWrite ==
    /\ images = {}
    /\ imagesFts = {}
    /\ projects = UpsertProject({}, SanitizeId(ScFolder), Basename(ScFolder), ScFolder, 0)
    /\ operationCount = 0
    /\ dbPre = {}
    /\ dbOp = NoOp
    /\ projCalls = <<>>
    /\ now = 0
    /\ srcFiles = NoFiles
    /\ derivs = NoFiles
    /\ generated = {}
    /\ scOp = NoOp
    /\ store = <<>>
    /\ storeIssued = {}
    /\ albums = <<>>
    /\ handlers = {}
    /\ diffRun = NoDiffRun
    /\ work = 1
    /\ watcher = 1
    /\ closedW = {}
    /\ sidecarManagers = MapPut(<<>>, SanitizeId(ScFolder), WrManager)
    /\ serverManagers = MapPut(<<>>, SanitizeId(ScFolder), WrManager)
    /\ sessions = <<[NewSession(ScFolder) EXCEPT !.pc = "watching", !.diff = "done",
                                                 !.workAt = 1,
                                                  !.manager = WrManager]>>
    /\ pipes = {}
    /\ bg = {}
    /\ events = {}
    /\ sent = <<>>
    /\ served = NoOp
    /\ listener = NotStarted

\* a generate call finds its derivative missing or stale and calls toFile
WrBegin(tier) ==
    LET key == <<ScFolder, ScName, tier>>
        out == generate(tier, FileAt(srcFiles, ScSrc), FileAt(derivs, key), now)
    IN  /\ Cardinality(bg) < MaxWrites
        /\ out.wrote
        /\ derivs' = PutFile(derivs, key, Partial(now))
        /\ bg' = bg \cup {[key |-> key, file |-> out.file]}
        /\ UNCHANGED <<dbVars, dbObs, projCalls, now, srcFiles, scObs, storeVars, watcher,
                       closedW, sidecarManagers, serverManagers, sessions, pipes, events,
                       sent, served, listener, work, diffRun>>

WrBeginThumbnail == WrBegin("thumb")
WrBeginStandardPreview == WrBegin("standard")
WrBeginFullSizePreview == WrBegin("full")

\* toFile resolves: the file is whole
WrEnd ==
    /\ \E w \in bg :
        /\ derivs' = PutFile(derivs, w.key, [w.file EXCEPT !.mtime = now])
        /\ bg' = bg \ {w}
    /\ UNCHANGED <<dbVars, dbObs, projCalls, now, srcFiles, scObs, storeVars, watcher,
                   closedW, sidecarManagers, serverManagers, sessions, pipes, events,
                   sent, served, listener, work, diffRun>>

NextWrite ==
    \/ ScSourceWritten
    \/ ScTick
    \/ WrBeginThumbnail
    \/ WrBeginStandardPreview
    \/ WrBeginFullSizePreview
    \/ WrEnd
    \/ ServeRequest

SpecWrite == InitWrite /\ [][NextWrite]_vars

(***************************************************************************)
(* Claims on the Metadata Cache.                                           *)
(***************************************************************************)
StoredRows(tbl, id) == {row \in tbl : row.id = id}

\* upsertImage called on each record of a list, in list order
RECURSIVE UpsertEach(_, _)
UpsertEach(tbl, recs) ==
    IF recs = <<>> THEN tbl
    ELSE UpsertEach(UpsertImage(tbl, Head(recs)), Tail(recs))

\* C1: upsertImage called with a record whose modifiedAt is older than or
\* equal to the stored row's leaves that row, rating included, and every
\* other row of the table unchanged.
C1_StaleUpsertChangesNothing ==
    (/\ dbOp.kind = "upsertImage"
     /\ \E row \in dbPre : /\ row.id = dbOp.image.id
                           /\ dbOp.image.modified_at <= row.modified_at)
    => images = dbPre

\* C1 witness: a stale upsert, carrying another rating and other dimensions
\* than the stored row, has run on a table that holds a second row.
C1_Witness ==
    /\ dbOp.kind = "upsertImage"
    /\ Cardinality(dbPre) >= 2
    /\ \E row \in dbPre : /\ row.id = dbOp.image.id
                          /\ dbOp.image.modified_at <= row.modified_at
                          /\ dbOp.image.rating # row.rating
                          /\ dbOp.image.width # row.width
                          /\ row.rating = 5

\* C2: upsertImage inserts the record as given when no row has its id; when
\* a row has and the record is strictly newer, the row takes the record's
\* file size, width, height, modifiedAt and rating and keeps its id, project
\* id, file path, file name and createdAt; no other row changes.
C2_UpsertInsertsOrRefreshes ==
    dbOp.kind = "upsertImage" =>
        LET image == dbOp.image
            old == StoredRows(dbPre, image.id)
        IN  /\ old = {} => images = dbPre \cup {image}
            /\ \A row \in old : image.modified_at > row.modified_at =>
                 images = (dbPre \ {row}) \cup
                    {[id |-> row.id,
                      project_id |-> row.project_id,
                      file_path |-> row.file_path,
                      file_name |-> row.file_name,
                      created_at |-> row.created_at,
                      file_size |-> image.file_size,
                      width |-> image.width,
                      height |-> image.height,
                      modified_at |-> image.modified_at,
                      rating |-> image.rating]}

\* C3: the table after upsertImagesBatch(records) equals the table after
\* upsertImage on each record in list order.
C3_BatchEqualsUpsertEach ==
    dbOp.kind = "upsertImagesBatch" =>
        images = UpsertEach(dbPre, dbOp.recs)

\* C5: getImagesByProject returns exactly the rows of the project, each
\* once, in non-increasing order of modifiedAt.
C5_ProjectRowsNewestFirst ==
    dbOp.kind = "getImagesByProject" =>
        LET result == dbOp.result
            hit == {row \in images : row.project_id = dbOp.projectId}
        IN  /\ {result[i] : i \in 1..Len(result)} = hit
            /\ Len(result) = Cardinality(hit)
            /\ \A i \in 1..Len(result) - 1 :
                 result[i].modified_at >= result[i + 1].modified_at

\* C5 witness: a query answered with rows of different modifiedAt while the
\* table holds a row of another project.
C5_Witness ==
    /\ dbOp.kind = "getImagesByProject"
    /\ Len(dbOp.result) >= 2
    /\ dbOp.result[1].modified_at > dbOp.result[Len(dbOp.result)].modified_at
    /\ \E row \in images : row.project_id # dbOp.projectId

(***************************************************************************)
(* Claims on the Derivative Store.                                         *)
(***************************************************************************)
ScKey == <<ScFolder, ScName, scOp.tier>>

\* C9 as stated: for each tier, a generation call that follows an earlier
\* one with the source unchanged writes nothing and leaves the derivative
\* file's mtime and content untouched.
C9_RegenerationIsNoOp ==
    (scOp.kind = "generate" /\ scOp.again)
    => (~scOp.wrote /\ FileAt(derivs, ScKey) = scOp.before)

\* C9 amended: the same, for a source whose mtime is not later than the
\* mtime of the derivative the earlier call left.
C9_RegenerationOfValidIsNoOp ==
    (/\ scOp.kind = "generate"
     /\ scOp.again
     /\ scOp.before # NoFile => scOp.before.mtime >= srcFiles[ScSrc].mtime)
    => (~scOp.wrote /\ FileAt(derivs, ScKey) = scOp.before)

\* C9 witness: a tier is generated again, later on the clock, for an
\* unchanged source whose derivative carries the source's own mtime.
C9_Witness ==
    /\ scOp.kind = "generate"
    /\ scOp.again
    /\ scOp.before # NoFile
    /\ scOp.before.mtime = srcFiles[ScSrc].mtime
    /\ now > scOp.before.mtime
    /\ scOp.ret = "path"

\* C10: generateFullSizePreview leaves a full-size file and returns its path
\* when the source's longer edge exceeds 1600; when the longer edge is at
\* most 1600 it writes nothing and returns null.  What it writes is the
\* source at full resolution.
C10_FullSizeOnlyAboveEdge ==
    (scOp.kind = "generate" /\ scOp.tier = "full") =>
        LET src == srcFiles[ScSrc]
            longer == IF src.width >= src.height THEN src.width ELSE src.height
        IN  /\ longer > 1600 => /\ scOp.ret = "path"
                                /\ FileAt(derivs, ScKey) # NoFile
            /\ longer <= 1600 => /\ scOp.ret = "null"
                                 /\ ~scOp.wrote
                                 /\ FileAt(derivs, ScKey) = scOp.before
            /\ scOp.wrote => /\ FileAt(derivs, ScKey).width = src.width
                             /\ FileAt(derivs, ScKey).height = src.height

\* C10 witness: the call has returned null for a source whose longer edge
\* is exactly 1600, with no full-size file on disk.
C10_Witness ==
    /\ scOp.kind = "generate"
    /\ scOp.tier = "full"
    /\ srcFiles[ScSrc].width = 1600
    /\ scOp.ret = "null"
    /\ FileAt(derivs, ScKey) = NoFile

(***************************************************************************)
(* Claims on the projects table.                                           *)
(***************************************************************************)
\* C4: after any number of upsertProject calls for an id there is exactly
\* one project row with that id, its createdAt is the time of the first
\* call and its lastOpened the time of the latest call.
C4_UpsertProjectIdempotent ==
    \A id \in DOMAIN projCalls :
        LET rows == {row \in projects : row.id = id}
        IN  /\ Cardinality(rows) = 1
            /\ \A row \in rows : /\ row.created_at = projCalls[id].first
                                 /\ row.last_opened = projCalls[id].last

\* C4 witness: a project was upserted again at a later time, next to the
\* row of another project.
C4_Witness ==
    /\ Cardinality(projects) >= 2
    /\ \E id \in DOMAIN projCalls : projCalls[id].first < projCalls[id].last

(***************************************************************************)
(* Failures of a pipeline whose cause lies outside the folders: sharp       *)
(* rejects the file, the metadata sidecar does not parse, the database      *)
(* statement throws.  Whatever the try block of processImageWithSidecar     *)
(* throws, at its thumbnail step or after it, lands in its catch block.     *)
(***************************************************************************)
MaxFailWork == 3

PipeThrows ==
    /\ \E p \in pipes :
        LET S == sessions[p.sid]
            out == Returned(p, DegradedRecord(S.folder, p.name), images)
        IN  /\ p.pc \in {"thumb", "meta"}
            /\ sessions' = [sessions EXCEPT ![p.sid] = out.session]
            /\ images' = out.images
            /\ sent' = out.sent
            /\ pipes' = out.pipes
    /\ imagesFts' = FtsApply(imagesFts, images, images')
    /\ UNCHANGED <<projects, operationCount, dbObs, projCalls, fsVars, scObs, storeVars,
                   watcher, closedW, sidecarManagers, serverManagers, bg, events,
                   served, listener, work, diffRun>>

InitFail == InitEngine(MaxFailWork)

NextFail ==
    \/ Next
    \/ PipeThrows

SpecFail == InitFail /\ [][NextFail]_vars

(***************************************************************************)
(* The engine with the renderer's add and remove of a folder: a folder is   *)
(* added to the project store, watched, and removed from the store again.   *)
(***************************************************************************)
MaxRemoveWork == 3

InitRemove == InitEngine(MaxRemoveWork)

NextRemove ==
    \/ Next
    \/ AddProject
    \/ RemoveProject

SpecRemove == InitRemove /\ [][NextRemove]_vars

(***************************************************************************)
(* The renderer (App.tsx) and the project store.  The application starts   *)
(* with the projects.json an earlier run left; the renderer mounts with no *)
(* album and asks for the projects.  A click on "add folder" runs          *)
(* handleAddFolder, which checks the selected path against the albums of   *)
(* the render in which the click was made.                                 *)
(***************************************************************************)
MaxAdds == 2

\* projects.json as an earlier run left it: empty, or with one folder added
EarlierStores == {<<>>} \cup {<<NewProject(folderPath, 0)>> : folderPath \in Folders}

NoPath == <<>>

\* window.electron.getProjects(), called on mount
GetProjectsCall == [kind |-> "getProjects", pc |-> "sent", albums |-> <<>>,
                    path |-> NoPath, n |-> 0]

InitRenderer ==
    /\ IdleDb
    /\ now = 1
    /\ srcFiles = NoFiles
    /\ derivs = NoFiles
    /\ generated = {}
    /\ scOp = NoOp
    /\ store \in EarlierStores
    /\ storeIssued = {[path |-> store[k].path, id |-> store[k].id] : k \in 1..Len(store)}
    /\ albums = <<>>
    /\ handlers = {GetProjectsCall}
    /\ watcher = 0
    /\ closedW = {}
    /\ sidecarManagers = <<>>
    /\ serverManagers = <<>>
    /\ sessions = <<>>
    /\ pipes = {}
    /\ bg = {}
    /\ events = {}
    /\ sent = <<>>
    /\ served = NoOp
    /\ listener = NotStarted
    /\ work = 0
    /\ diffRun = NoDiffRun

\* ipcMain.handle('get-projects'): the store's projects are sent back
GetProjects ==
    /\ \E h \in handlers :
        /\ h.kind = "getProjects" /\ h.pc = "sent"
        /\ handlers' = (handlers \ {h}) \cup
                       {[h EXCEPT !.pc = "replied",
                                  !.albums = [k \in 1..Len(store) |-> Album(store[k])]]}
    /\ UNCHANGED <<dbVars, dbObs, projCalls, fsVars, scObs, store, storeIssued, albums,
                   engVars, diffRun>>

\* getProjects().then(projects => setAlbums(loadedAlbums))
ProjectsLoaded ==
    /\ \E h \in handlers :
        /\ h.kind = "getProjects" /\ h.pc = "replied"
        /\ albums' = h.albums
        /\ handlers' = handlers \ {h}
    /\ UNCHANGED <<dbVars, dbObs, projCalls, fsVars, scObs, store, storeIssued, engVars,
                   diffRun>>

\* a click on "add folder": handleAddFolder of the current render is called
\* and awaits selectFolder(); the dialog is modal, one is open at a time
HandleAddFolder ==
    /\ work < MaxAdds
    /\ \A h \in handlers : h.pc # "select"
    /\ handlers' = handlers \cup {[kind |-> "addFolder", pc |-> "select",
                                   albums |-> albums, path |-> NoPath, n |-> work + 1]}
    /\ work' = work + 1
    /\ UNCHANGED <<dbVars, dbObs, projCalls, fsVars, scObs, store, storeIssued, albums,
                   watcher, closedW, sidecarManagers, serverManagers, sessions, pipes,
                   bg, events, sent, served, listener, diffRun>>

\* selectFolder() has resolved: if (path) { if (albums.some(a => a.path ===
\* path)) { alert; return }; await addProject(path) ... }
FolderSelected ==
    /\ \E h \in handlers, path \in Folders \cup {NoPath} :
        /\ h.kind = "addFolder" /\ h.pc = "select"
        /\ handlers' = IF path = NoPath \/ path \in AlbumPaths(h.albums)
                       THEN handlers \ {h}
                       ELSE (handlers \ {h}) \cup {[h EXCEPT !.pc = "adding", !.path = path]}
    /\ UNCHANGED <<dbVars, dbObs, projCalls, fsVars, scObs, store, storeIssued, albums,
                   engVars, diffRun>>

\* ipcMain.handle('add-project'): store.addProject(folderPath)
AddProjectHandled ==
    /\ \E h \in handlers :
        LET newProject == NewProject(h.path, now)
        IN  /\ h.kind = "addFolder" /\ h.pc = "adding"
            /\ store' = Append(store, newProject)
            /\ storeIssued' = storeIssued \cup {[path |-> h.path, id |-> newProject.id]}
            /\ handlers' = (handlers \ {h}) \cup
                           {[h EXCEPT !.pc = "added", !.albums = <<Album(newProject)>>]}
    /\ UNCHANGED <<dbVars, dbObs, projCalls, fsVars, scObs, albums, engVars, diffRun>>

\* addProject(path) has resolved: setAlbums(prev => [...prev, newAlbum])
AlbumAdded ==
    /\ \E h \in handlers :
        /\ h.kind = "addFolder" /\ h.pc = "added"
        /\ albums' = albums \o h.albums
        /\ handlers' = handlers \ {h}
    /\ UNCHANGED <<dbVars, dbObs, projCalls, fsVars, scObs, store, storeIssued, engVars,
                   diffRun>>

NextRenderer ==
    \/ GetProjects
    \/ ProjectsLoaded
    \/ HandleAddFolder
    \/ FolderSelected
    \/ AddProjectHandled
    \/ AlbumAdded
    \/ StoreTick

SpecRenderer == InitRenderer /\ [][NextRenderer]_vars

(***************************************************************************)
(* The diff of one start-watching call over a folder of many image files,  *)
(* none of them cached and none failing.  The files are of one kind, so    *)
(* the pipelines are counted by the step they are at: thumb and meta are   *)
(* the calls of processImageWithSidecar before and after their thumbnail,  *)
(* returned those of the batch that have returned, standard and full the   *)
(* background preview tasks before their first and second generation.      *)
(***************************************************************************)
MaxFiles == 12

\* the diff at its fs.readdir
DiffRunAtReaddir ==
    [pc |-> "readdir", newFiles |-> 0, i |-> 0, batch |-> 0, thumb |-> 0, meta |-> 0,
     returned |-> 0, standard |-> 0, full |-> 0, notified |-> 0]

\* for (let i = 0; i < newFiles.length; i += batchSize): the next batch's
\* pipelines are started, or the loop ends
DrLoop(d) ==
    IF d.i < d.newFiles
    THEN [d EXCEPT !.pc = "batch", !.batch = Min(BatchSize, d.newFiles - d.i),
                   !.thumb = Min(BatchSize, d.newFiles - d.i), !.returned = 0]
    ELSE [d EXCEPT !.pc = "watching", !.batch = 0, !.returned = 0]

InitDiffRun ==
    /\ IdleDb
    /\ now = 0
    /\ srcFiles = NoFiles
    /\ derivs = NoFiles
    /\ generated = {}
    /\ scOp = NoOp
    /\ store = <<>>
    /\ storeIssued = {}
    /\ albums = <<>>
    /\ handlers = {}
    /\ watcher = 0
    /\ closedW = {}
    /\ sidecarManagers = <<>>
    /\ serverManagers = <<>>
    /\ sessions = <<>>
    /\ pipes = {}
    /\ bg = {}
    /\ events = {}
    /\ sent = <<>>
    /\ served = NoOp
    /\ listener = NotStarted
    /\ work = 0
    /\ diffRun = DiffRunAtReaddir

DrIdle == UNCHANGED <<dbVars, dbObs, projCalls, fsVars, scObs, storeVars, engVars>>

\* fs.readdir has resolved with the folder's image files
DrReaddir ==
    /\ diffRun.pc = "readdir"
    /\ \E n \in 0..MaxFiles : diffRun' = DrLoop([diffRun EXCEPT !.newFiles = n])
    /\ DrIdle

\* a pipeline's generateThumbnail has resolved
DrThumbnail ==
    /\ diffRun.thumb > 0
    /\ diffRun' = [diffRun EXCEPT !.thumb = @ - 1, !.meta = @ + 1]
    /\ DrIdle

\* a pipeline upserts its row, schedules its previews and returns; when it
\* is the last of its batch the batch's records are sent and the loop goes on
DrUpsert ==
    /\ diffRun.meta > 0
    /\ LET d == [diffRun EXCEPT !.meta = @ - 1, !.standard = @ + 1, !.returned = @ + 1]
       IN  diffRun' = IF d.returned < d.batch THEN d
                      ELSE DrLoop([d EXCEPT !.notified = @ + d.batch,
                                            !.i = @ + BatchSize])
    /\ DrIdle

\* a background task's generateStandardPreview has resolved
DrStandardPreview ==
    /\ diffRun.standard > 0
    /\ diffRun' = [diffRun EXCEPT !.standard = @ - 1, !.full = @ + 1]
    /\ DrIdle

\* a background task's generateFullSizePreview has resolved
DrFullSizePreview ==
    /\ diffRun.full > 0
    /\ diffRun' = [diffRun EXCEPT !.full = @ - 1]
    /\ DrIdle

NextDiffRun ==
    \/ DrReaddir
    \/ DrThumbnail
    \/ DrUpsert
    \/ DrStandardPreview
    \/ DrFullSizePreview

SpecDiffRun == InitDiffRun /\ [][NextDiffRun]_vars

(***************************************************************************)
(* Claims on the Reconciliation Engine and the Derivative Server.          *)
(***************************************************************************)
\* C6: in every reachable state the Metadata Cache holds one row per
\* (projectId, fileName) pair: no two rows have the same project id and the
\* same file name.
C6_OneRowPerProjectAndName ==
    \A r1, r2 \in images :
        (r1.project_id = r2.project_id /\ r1.file_name = r2.file_name) => r1 = r2

\* the project ids a folder's path was ever given: by Store.addProject and by
\* the start-watching handler
IdsOf(folderPath) ==
    {issued.id : issued \in {g \in storeIssued : g.path = folderPath}}
        \cup {sessions[k].projectId :
                 k \in {j \in 1..Len(sessions) : sessions[j].folder = folderPath}}

\* C7: the project id is a function of the folder's root path: adding or
\* selecting the same folder again, at any later time, gives the id it was
\* given the first time.
C7_ProjectIdIsFunctionOfPath ==
    \A folderPath \in Folders : Cardinality(IdsOf(folderPath)) <= 1

\* C8: whenever the server answers a request with a derivative file, that
\* file's mtime is at least the mtime of the source file it was made from.
C8_ServedDerivativeIsValid ==
    (served # NoOp /\ served.status = 200
        /\ FileAt(srcFiles, <<served.folderPath, served.name>>) # NoFile)
    => served.file.mtime >= FileAt(srcFiles, <<served.folderPath, served.name>>).mtime

\* C11: the server never streams a derivative that is still being written:
\* the file of every answer with image bytes is a whole file.
C11_ServedFileIsWhole ==
    (served # NoOp /\ served.status = 200) => IsComplete(served.file)

\* the image files of a folder
NamesIn(folderPath) == {nm \in Names : <<folderPath, nm>> \in DOMAIN srcFiles}

\* no picture was created, rewritten or deleted since the start: all the work
\* done is the pictures held and the calls
NoOutsideChange ==
    \A folderPath \in Folders : work = Len(sessions) + Cardinality(NamesIn(folderPath))

\* the file-added notifications of a session, as positions of sent
AddedBy(sid) ==
    {k \in 1..Len(sent) : sent[k].kind = "file-added" /\ sent[k].by = sid}

RowsOf(projectId) == {row \in images : row.project_id = projectId}

\* the diff of a session has completed
DiffDone(sid) == sessions[sid].pc = "watching"

\* C12: when the diff of a folder with N image files has completed, having
\* started from an empty cache, the cache holds exactly N rows of the project
\* and the diff has sent exactly N file-added notifications, one per file.
C12_DiffGivesNRowsAndNNotifications ==
    \A sid \in 1..Len(sessions) :
        (DiffDone(sid) /\ sessions[sid].found = 0 /\ NoOutsideChange)
        => LET N == Cardinality(NamesIn(sessions[sid].folder))
           IN  /\ Cardinality(RowsOf(sessions[sid].projectId)) = N
               /\ Cardinality(AddedBy(sid)) = N
               /\ \A nm \in NamesIn(sessions[sid].folder) :
                   \E k \in AddedBy(sid) : sent[k].name = nm

\* the step in which the diff of a session runs to its end
DiffEnds(sid) ==
    /\ sid <= Len(sessions)
    /\ sessions[sid].pc \in {"readdir", "batch"}
    /\ sessions'[sid].pc = "watching"

\* the image files the diff has read, or reads in this step, from its folder
ScanNames(sid) ==
    IF sessions[sid].pc = "readdir" THEN NamesIn(sessions[sid].folder)
    ELSE sessions[sid].imageFiles

\* the files of the session's folder whose rows were cached when the call
\* came and that the folder no longer holds: deleted between the scans
LostNames(sid) ==
    {nm \in Names \ ScanNames(sid) :
        \E k \in 1..Len(sessions[sid].cached) :
            sessions[sid].cached[k].id = PathJoin(sessions[sid].folder, nm)}

\* the file-removed notifications sent in the step
RemovedNow ==
    {k \in (Len(sent) + 1)..Len(sent') : sent'[k].kind = "file-removed"}

IdsIn(tbl) == {row.id : row \in tbl}

\* C13: when files with cached rows were deleted between scans, the next
\* diff removes their rows and no other row, and sends exactly one
\* file-removed notification for each, with its name and the project id.
C13_DiffRemovesRowsOfDeletedFiles ==
    [][\A sid \in 1..MaxCalls :
        (DiffEnds(sid) /\ LostNames(sid) # {})
        => LET S == sessions[sid]
               lostIds == {PathJoin(S.folder, nm) : nm \in LostNames(sid)}
           IN  /\ IdsIn(images) \ IdsIn(images') = lostIds
               /\ \A nm \in LostNames(sid) :
                   Cardinality({k \in RemovedNow : sent'[k].name = nm}) = 1
               /\ \A k \in RemovedNow :
                   sent'[k].name \in LostNames(sid) /\ sent'[k].projectId = S.projectId
      ]_vars

\* the session's watcher is open and its diff has completed: Watching
Watching(sid) ==
    sid <= Len(sessions) /\ sid \in OpenWatchers /\ sessions[sid].pc = "watching"

HasRow(sid, nm) ==
    sid <= Len(sessions) /\ PathJoin(sessions[sid].folder, nm) \in IdsIn(images)

HasFile(sid, nm) ==
    sid <= Len(sessions) /\ <<sessions[sid].folder, nm>> \in DOMAIN srcFiles

\* C14: when a source file disappears while its folder is being watched, the
\* file's row is in the end deleted from the Metadata Cache.
C14_WatchedDeletionRemovesRow ==
    \A sid \in 1..MaxCalls, nm \in Names :
        [](( Watching(sid) /\ HasFile(sid, nm) /\ HasRow(sid, nm))
            => []((Watching(sid) /\ ~HasFile(sid, nm)) => <>(~HasRow(sid, nm))))

\* nothing was created, rewritten or deleted from outside since the call of
\* the session: all the work done since is later calls
UnchangedSince(sid) == work = sessions[sid].workAt + (Len(sessions) - sid)

\* C15: a re-scan updates changed files: when the diff of a start-watching
\* call has completed on a folder that has not changed since the call, every
\* row of a file of the folder has the modified_at of its source file's mtime.
C15_RescanRefreshesModifiedAt ==
    \A sid \in 1..Len(sessions) :
        (DiffDone(sid) /\ UnchangedSince(sid))
        => \A row \in images, nm \in NamesIn(sessions[sid].folder) :
            row.id = PathJoin(sessions[sid].folder, nm)
            => row.modified_at = srcFiles[<<sessions[sid].folder, nm>>].mtime

\* the derivative of a tier of the one source file of SpecWrite
WrDeriv(tier) == FileAt(derivs, <<ScFolder, ScName, tier>>)

\* the pipeline of the source file as it is now has finished: no write is in
\* progress, and a further run of the pipeline would write nothing
WrPipelineFinished ==
    /\ bg = {}
    /\ FileAt(srcFiles, ScSrc) # NoFile
    /\ \A tier \in Tiers :
        ~generate(tier, FileAt(srcFiles, ScSrc), WrDeriv(tier), now).wrote

\* C16: for a source image whose longer edge is at most 1600, once its
\* pipeline has finished, a request for the full tier is answered with the
\* file a request for the standard tier is answered with.
C16_FullOfSmallIsStandard ==
    (WrPipelineFinished /\ IsSmall(FileAt(srcFiles, ScSrc)))
    => /\ Respond("full", SanitizeId(ScFolder), ScName).status = 200
       /\ Respond("full", SanitizeId(ScFolder), ScName).file
              = Respond("standard", SanitizeId(ScFolder), ScName).file

\* C17: in every reachable state at most one filesystem watch is active,
\* also when the handlers of two start-watching calls interleave.
C17_AtMostOneActiveWatch == Cardinality(OpenWatchers) <= 1

\* the start-watching calls for another folder that had been received, after
\* the call of its session, when the k-th notification was sent
SwitchesBefore(k) ==
    {j \in (sent[k].by + 1)..sent[k].calls :
        sessions[j].folder # sessions[sent[k].by].folder}

\* C18: once the watched folder is switched, the abandoned session is silent:
\* no file-added or file-removed notification of the previous folder's watch
\* or diff is sent after the start-watching call for the new folder.
C18_AbandonedSessionIsSilent ==
    \A k \in 1..Len(sent) : SwitchesBefore(k) = {}

\* the background tasks scheduled in the step: tier 2 and tier 3 of a file
ScheduledNow == {b \in bg' \ bg : b.pc = "standard"}

\* the tier-2 and tier-3 derivatives written in the step
PreviewsWrittenNow ==
    {key \in DOMAIN derivs' :
        key[3] \in {"standard", "full"} /\ FileAt(derivs, key) # derivs'[key]}

\* C19: the steps of one file's pipeline are ordered.  Tier 2/3 is scheduled
\* only in the step that upserts the file's row, by a pipeline that is past
\* its tier-1 step with the thumbnail on disk; and a tier-2/3 derivative is
\* written only by a task that was scheduled so.
C19_PipelineStepsInOrder ==
    [][/\ \A b \in ScheduledNow :
            /\ \E p \in pipes \ pipes' :
                p.pc = "meta" /\ p.name = b.name /\ sessions[p.sid].folder = b.folder
            /\ FileAt(derivs, <<b.manager.folderPath, b.name, "thumb">>) # NoFile
            /\ \E row \in images' :
                /\ row.id = PathJoin(b.folder, b.name)
                /\ row.modified_at >= srcFiles[<<b.folder, b.name>>].mtime
       /\ \A key \in PreviewsWrittenNow :
            \E b \in bg : b.manager.folderPath = key[1] /\ b.name = key[2] /\ b.pc = key[3]
      ]_vars

\* a file's pipeline has run through: its row is cached, its thumbnail and its
\* standard preview are on disk and tier 3 is about to start
C19_Witness ==
    \E b \in bg :
        /\ b.pc = "full"
        /\ PathJoin(b.folder, b.name) \in IdsIn(images)
        /\ FileAt(derivs, <<b.manager.folderPath, b.name, "thumb">>) # NoFile
        /\ FileAt(derivs, <<b.manager.folderPath, b.name, "standard">>) # NoFile

\* the background task the pipeline schedules when it gets through
PipeTask(p) ==
    [folder |-> sessions[p.sid].folder, name |-> p.name,
     manager |-> sessions[p.sid].manager, pc |-> "standard"]

\* the step in which the pipeline fails: it leaves its thumbnail step without
\* reaching the metadata step, or leaves the metadata step with no previews
\* scheduled
Failed(p) ==
    /\ p.pc \in {"thumb", "meta"}
    /\ p \notin pipes'
    /\ [p EXCEPT !.pc = "meta"] \notin pipes'
    /\ p.pc = "meta" => PipeTask(p) \notin bg'

\* the other pipelines of the batch of a diff's pipeline
RestOfBatch(p) == {q \in pipes \ {p} : q.sid = p.sid /\ q.origin = "diff"}

\* the notifications sent in the step, as positions of sent'
SentNow == (Len(sent) + 1)..Len(sent')

\* the url of the original source file of a pipeline
SourceUrl(p) == <<"file", PathJoin(sessions[p.sid].folder, p.name)>>

\* C20: a failure at a step of one file's pipeline yields a degraded record
\* whose thumbnail and url point at the original source file; the record is
\* delivered as a file-added notification, at once or when its batch has
\* ended, and the other files of the batch are still processed and notified.
C20_FailureYieldsDegradedRecord ==
    [][/\ \A p \in pipes : Failed(p) =>
            LET new == {k \in SentNow : /\ sent'[k].kind = "file-added"
                                          /\ sent'[k].by = p.sid
                                          /\ sent'[k].name = p.name}
                held == {q \in pipes' : /\ q.pc = "returned"
                                        /\ [q EXCEPT !.pc = p.pc, !.rec = p.rec] = p}
            IN  IF p.origin = "diff" /\ \E q \in RestOfBatch(p) : q.pc # "returned"
                THEN /\ new = {}
                     /\ Cardinality(held) = 1
                     /\ \A q \in held : q.rec.thumbnail = SourceUrl(p)
                                        /\ q.rec.url = SourceUrl(p)
                     /\ RestOfBatch(p) \subseteq pipes'
                ELSE /\ Cardinality(new) = 1
                     /\ \A k \in new : sent'[k].thumbnail = SourceUrl(p)
                                       /\ sent'[k].url = SourceUrl(p)
       /\ \A q \in pipes : (q.pc = "returned" /\ q \notin pipes')
            => \E k \in SentNow : sent'[k] = Tag(q.rec, q.sid)
      ]_vars

\* a diff has notified two files of one batch: the pipeline of one had failed,
\* the other was processed
C20_Witness ==
    \E j, k \in 1..Len(sent) :
        /\ sent[j].kind = "file-added" /\ sent[k].kind = "file-added"
        /\ sent[j].by = sent[k].by
        /\ sent[j].name # sent[k].name
        /\ sent[j].thumbnail[1] = "file" /\ sent[j].url[1] = "file"
        /\ sent[k].thumbnail[1] = "thumb"
        /\ sent[k].id \in IdsIn(images)

\* the background generation of the file of the k-th notification has
\* completed: none of its tier-2/3 tasks is pending
GenerationDone(k) ==
    \A b \in bg : ~(b.folder = sessions[sent[k].by].folder /\ b.name = sent[k].name)

\* C21: the url of every display record delivered with a Derivative Server
\* url resolves to image bytes, at the latest once the background generation
\* of its file has completed.
C21_UrlResolves ==
    \A k \in 1..Len(sent) :
        (sent[k].kind = "file-added" /\ sent[k].url[1] = "preview" /\ GenerationDone(k))
        => Respond(sent[k].url[1], sent[k].url[2], sent[k].url[3]).status = 200

\* the step is a request answered by the server
Answered == served' # served

\* the requested project has no registered manager
Unregistered(r) == r.projectId \notin DOMAIN serverManagers

\* the registered project has no derivative file of the tier for the name
Missing(r, tier) ==
    /\ ~Unregistered(r)
    /\ FileAt(derivs, <<serverManagers[r.projectId].folderPath, r.name, tier>>) = NoFile

\* C22, as stated: a request for an unregistered project, or for a derivative
\* that does not exist at the requested tier, is answered not-found.
C22_MissingIsNotFound ==
    [][Answered => ((Unregistered(served') \/ Missing(served', served'.route))
                    => served'.status = 404)]_vars

\* C22, amended: a request for an unregistered project, or for a derivative
\* that does not exist at the requested tier, nor at the standard tier when
\* the full tier is requested, is answered not-found with no bytes, and the
\* registries of the server and of the main process are left unchanged.
C22_MissingWithoutFallbackIsNotFound ==
    [][Answered =>
        /\ serverManagers' = serverManagers
        /\ sidecarManagers' = sidecarManagers
        /\ (\/ Unregistered(served')
            \/ /\ Missing(served', served'.route)
               /\ served'.route = "full" => Missing(served', "standard"))
           => (served'.status = 404 /\ served'.file = NoFile)
      ]_vars

\* a request for the full tier of a registered project was answered
\* not-found, while another project is not registered
C22_Witness ==
    /\ served # NoOp
    /\ served.status = 404
    /\ served.route = "full"
    /\ served.projectId \in DOMAIN serverManagers
    /\ DOMAIN serverManagers # ProjectIds

\* the projects of the store that the step removes
RemovedProjects == {project \in Range(store) : project \notin Range(store')}

\* C23: removing a project cascade-removes its image rows from the Metadata
\* Cache: after the removal no row of the removed project's folder remains.
C23_RemoveProjectRemovesImageRows ==
    [][\A project \in RemovedProjects :
        \A row \in images' :
            /\ row.project_id # SanitizeId(project.path)
            /\ row.project_id # project.id
      ]_vars

\* C24: after any sequence of add-folder actions the project list holds at
\* most one project per path.
C24_OneProjectPerPath ==
    \A i, j \in 1..Len(store) : store[i].path = store[j].path => i = j

\* the file of a tier the registered project of a request holds for its name
TierFile(r, tier) ==
    FileAt(derivs, <<serverManagers[r.projectId].folderPath, r.name, tier>>)

\* the request is answered with the file of the tier
AnsweredWith(r, tier) ==
    r.status = 200 /\ r.tier = tier /\ r.file = TierFile(r, tier)

\* C25: a request for the full tier is answered with the full-size preview
\* if that exists, otherwise with the standard preview if that exists,
\* otherwise not-found; a request for another tier is answered with the file
\* of that tier or not-found.
C25_FullFallsBackToStandardOnly ==
    [][(Answered /\ ~Unregistered(served')) =>
        LET r == served'
        IN  IF TierFile(r, r.route) # NoFile THEN AnsweredWith(r, r.route)
            ELSE IF r.route = "full" /\ TierFile(r, "standard") # NoFile
            THEN AnsweredWith(r, "standard")
            ELSE r.status = 404 /\ r.file = NoFile
      ]_vars

\* a request for the full tier was answered with the standard preview
C25_Witness ==
    /\ served # NoOp
    /\ served.route = "full"
    /\ served.status = 200
    /\ served.tier = "standard"
    /\ served.file # NoFile

\* the pipelines in flight for a file of a project: the calls of
\* processImageWithSidecar that have not returned, and the background
\* preview tasks of those that have
PipesInFlight(projectId, name) ==
    {p \in pipes : /\ p.pc \in {"thumb", "meta"}
                   /\ p.name = name
                   /\ sessions[p.sid].projectId = projectId}

TasksInFlight(projectId, name) ==
    {b \in bg : b.name = name /\ SanitizeId(b.folder) = projectId}

\* C26: at most one per-file pipeline is in flight for any project and file
\* name at any time.
C26_OnePipelinePerFile ==
    \A projectId \in ProjectIds, name \in Names :
        Cardinality(PipesInFlight(projectId, name))
            + Cardinality(TasksInFlight(projectId, name)) <= 1

\* the derivative generations in flight: the thumbnails of the pipelines and
\* the previews of the background tasks
GenerationsInFlight == diffRun.thumb + diffRun.standard + diffRun.full

\* C27: during Diffing at most 10 derivative generations, of any tier, are
\* in flight.
C27_AtMostBatchSizeGenerations ==
    diffRun.pc = "batch" => GenerationsInFlight <= BatchSize

\* the file-added notifications a session has sent for a file name
AddedFor(sid, name) == {k \in AddedBy(sid) : sent[k].name = name}

\* C28: within one session no file is processed by both the diff and the
\* watch: the session sends at most one file-added notification for a file.
C28_OneNotificationPerFileAndSession ==
    \A sid \in 1..Len(sessions), name \in Names : Cardinality(AddedFor(sid, name)) <= 1

\* the session of the latest start-watching call
Current(sid) == sid = Len(sessions)

\* the session has notified the file and the file has its row
Discovered(sid, nm) ==
    /\ sid <= Len(sessions)
    /\ AddedFor(sid, nm) # {}
    /\ HasRow(sid, nm)

\* C29: no file is missed across the hand-over from the diff to the watch:
\* an image file that is in the watched folder during the session and has no
\* row in the cache gets, unless it is deleted again or another folder is
\* selected, a file-added notification and a row in the end.
C29_NoFileIsMissed ==
    \A sid \in 1..MaxCalls, nm \in Names :
        [](( Current(sid) /\ HasFile(sid, nm) /\ ~HasRow(sid, nm))
            => <>(Discovered(sid, nm) \/ ~HasFile(sid, nm) \/ ~Current(sid)))

\* the derivative of a tier that the session of a notification keeps for the
\* notification's file
DerivOf(msg, files, tier) ==
    FileAt(files, <<sessions[msg.by].manager.folderPath, msg.name, tier>>)

\* the notification is a file-added with the server's thumbnail url
HasServerThumbnail(msg) == msg.kind = "file-added" /\ msg.thumbnail[1] = "thumb"

\* C30: a file-added notification with a Derivative Server thumbnail url is
\* sent only after the file's thumbnail is on disk; and it does not wait for
\* tier 2/3: a record that has returned is held back only while a pipeline
\* of its batch has not returned.
C30_NotifiedAfterThumbnailOnly ==
    [][/\ \A k \in SentNow :
            HasServerThumbnail(sent'[k]) => DerivOf(sent'[k], derivs, "thumb") # NoFile
       /\ \A q \in pipes' :
            q.pc = "returned"
            => \E r \in pipes' : /\ r.sid = q.sid /\ r.origin = "diff"
                                 /\ r.pc \in {"thumb", "meta"}
      ]_vars

\* a file was notified with its thumbnail on disk, before its standard and
\* full previews exist
C30_Witness ==
    \E k \in 1..Len(sent) :
        /\ HasServerThumbnail(sent[k])
        /\ DerivOf(sent[k], derivs, "thumb") # NoFile
        /\ DerivOf(sent[k], derivs, "standard") = NoFile
        /\ DerivOf(sent[k], derivs, "full") = NoFile
        /\ \E b \in bg : b.name = sent[k].name /\ b.pc = "standard"

\* the start-watching calls that have constructed a SidecarManager
Constructed == {sid \in 1..Len(sessions) : sessions[sid].manager.by = sid}

\* C31: across any sequence of start-watching calls, overlapping ones for
\* the same folder among them, at most one SidecarManager is ever constructed
\* per project id, and the handle the Derivative Server holds for a project
\* id is the one in the engine's map.
C31_OneManagerPerProject ==
    /\ \A s1, s2 \in Constructed :
        sessions[s1].projectId = sessions[s2].projectId => s1 = s2
    /\ DOMAIN serverManagers = DOMAIN sidecarManagers
    /\ \A projectId \in DOMAIN serverManagers :
        serverManagers[projectId] = sidecarManagers[projectId]

\* C32: start-watching on two different folder paths never resolves to the
\* same project id, and the Derivative Store handle a call works with (the
\* one its pipelines write to and the server serves from) has its sidecar
\* root inside the call's own folder.
C32_OneRootPerProject ==
    /\ \A s1, s2 \in 1..Len(sessions) :
        sessions[s1].folder # sessions[s2].folder
        => sessions[s1].projectId # sessions[s2].projectId
    /\ \A sid \in 1..Len(sessions) :
        sessions[sid].manager # NoManager
        => sessions[sid].manager.folderPath = sessions[sid].folder

(***************************************************************************)
(* The orphan sweep of the Derivative Store.  Here a file name is the      *)
(* sequence of its parts, a stem and the suffixes that follow it, so that  *)
(* the derivative's name is built and stripped as the code does it:        *)
(* "a.full.jpg" is <<"a", ".full.jpg">>, an image file by its extension.   *)
(* The pictures of one folder are processed tier by tier and deleted from  *)
(* outside, and the sweep is run at any time.                              *)
(***************************************************************************)
SweepFolder == FolderAB
SweepNames == {<<"a", ".jpg">>, <<"a", ".full.jpg">>, <<"a", ".jpg", ".full.jpg">>}

\* getThumbnailPath, getStandardPreviewPath, getFullSizePreviewPath: the
\* file's name in its directory
DerivName(imageName, tier) ==
    Append(imageName, CASE tier = "thumb" -> ".thumb.webp"
                        [] tier = "standard" -> ".standard.jpg"
                        [] tier = "full" -> ".full.jpg")

\* String.prototype.replace(pattern, '') with a string pattern: the first
\* occurrence is removed, wherever it is
ReplaceFirst(name, pattern) ==
    LET at == {i \in 1..Len(name) : name[i] = pattern}
    IN  IF at = {} THEN name
        ELSE LET i == CHOOSE j \in at : \A k \in at : j <= k
             IN  SubSeq(name, 1, i - 1) \o SubSeq(name, i + 1, Len(name))

\* the source name cleanupOrphaned infers from a file of thumbnails/ or of
\* previews/
OriginalName(fileName, tier) ==
    IF tier = "thumb" THEN ReplaceFirst(fileName, ".thumb.webp")
    ELSE ReplaceFirst(ReplaceFirst(ReplaceFirst(fileName, ".standard.jpg"),
                                   ".full.jpg"), ".preview.jpg")

\* cleanupOrphaned() of the manager of folderPath: the derivative files it
\* leaves and the count it returns
cleanupOrphaned(folderPath) ==
    LET imageSet == {key[2] : key \in {k \in DOMAIN srcFiles : k[1] = folderPath}}
        removed == {key \in DOMAIN derivs :
                       /\ key[1] = folderPath
                       /\ OriginalName(DerivName(key[2], key[3]), key[3]) \notin imageSet}
    IN  [derivs |-> [key \in DOMAIN derivs \ removed |-> derivs[key]],
         ret |-> Cardinality(removed)]

InitSweep ==
    /\ IdleDb
    /\ now = 0
    /\ \E held \in SUBSET SweepNames :
        srcFiles = [key \in {SweepFolder} \X held |->
                       [mtime |-> 0, birth |-> 0, width |-> 3000, height |-> 2000,
                        size |-> 1000]]
    /\ derivs = NoFiles
    /\ generated = {}
    /\ scOp = NoOp
    /\ IdleEngine

\* a generate call of the pipeline for a picture of the folder
SweepGenerate ==
    /\ \E imageName \in SweepNames, tier \in Tiers :
        LET key == <<SweepFolder, imageName, tier>>
            out == generate(tier, FileAt(srcFiles, <<SweepFolder, imageName>>),
                            FileAt(derivs, key), now)
        IN  /\ out.wrote
            /\ derivs' = PutFile(derivs, key, out.file)
    /\ scOp' = NoOp
    /\ UNCHANGED <<dbVars, dbObs, projCalls, now, srcFiles, generated, storeVars, engVars,
                   diffRun>>

\* a picture is deleted from outside
SweepSourceDeleted ==
    /\ \E key \in DOMAIN srcFiles : srcFiles' = PutFile(srcFiles, key, NoFile)
    /\ scOp' = NoOp
    /\ UNCHANGED <<dbVars, dbObs, projCalls, now, derivs, generated, storeVars, engVars,
                   diffRun>>

\* sidecarManager.cleanupOrphaned()
SweepCleanupOrphaned ==
    /\ LET out == cleanupOrphaned(SweepFolder)
       IN  /\ derivs' = out.derivs
           /\ scOp' = [kind |-> "cleanupOrphaned", ret |-> out.ret, before |-> derivs]
    /\ UNCHANGED <<dbVars, dbObs, projCalls, now, srcFiles, generated, storeVars, engVars,
                   diffRun>>

NextSweep ==
    \/ SweepGenerate
    \/ SweepSourceDeleted
    \/ SweepCleanupOrphaned

SpecSweep == InitSweep /\ [][NextSweep]_vars

\* C33: the orphan sweep deletes every thumbnail and preview whose source
\* file is no longer in the folder, deletes none whose source file is still
\* there, whatever its file name, and returns the number of files deleted.
C33_SweepDeletesExactlyOrphans ==
    scOp.kind = "cleanupOrphaned"
    => /\ \A key \in DOMAIN scOp.before :
            key \in DOMAIN derivs <=> <<key[1], key[2]>> \in DOMAIN srcFiles
       /\ scOp.ret = Cardinality(DOMAIN scOp.before \ DOMAIN derivs)

\* C34: the diff's deleted-files pass over a vanished file, whether its
\* DELETE removes the row or throws, leaves every derivative file as it is,
\* and no step of the diff, of a pipeline or of the watcher deletes a
\* derivative file: that is left to cleanup and cleanupOrphaned, which none
\* of them calls.
C34_RowRemovalKeepsDerivatives ==
    [][/\ \A key \in DOMAIN derivs : key \in DOMAIN derivs'
       /\ ~(IdsIn(images) \subseteq IdsIn(images')) => derivs' = derivs
       /\ \A sid \in 1..MaxCalls :
            (DiffEnds(sid) /\ LostNames(sid) # {}) => derivs' = derivs]_vars

\* C34 witness: the diff has run its DELETE for a vanished file, and the
\* file's thumbnail is still in the sidecar.
C34_Witness ==
    \E sid \in 1..Len(sessions) : \E nm \in Names :
        LET S == sessions[sid]
        IN  /\ S.diff = "threw"
            /\ <<S.folder, nm>> \notin DOMAIN srcFiles
            /\ HasRow(sid, nm)
            /\ <<S.manager.folderPath, nm, "thumb">> \in DOMAIN derivs

(***************************************************************************)
(* The Metadata Cache under all its writes: upsertImage, upsertImagesBatch, *)
(* the diff's DELETE and cleanupOrphaned, each tried once on the tables of  *)
(* first scans.  The times of this specification are counted in days.      *)
(***************************************************************************)
\* 30 * 24 * 60 * 60 * 1000 milliseconds
ThirtyDays == 30

\* SELECT DISTINCT image_id FROM image_tags: no statement of the repository
\* inserts into image_tags
TaggedIds == {}

\* the rows the DELETE of cleanupOrphaned() selects at time t
Orphaned(tbl, t) ==
    {row \in tbl : /\ row.id \notin TaggedIds
                   /\ row.rating = 0
                   /\ row.modified_at < t - ThirtyDays}

\* cleanupOrphaned() at time t: trigger images_fts_delete runs for each
\* deleted row
DbCleanupOrphaned(tbl, t) ==
    IF Orphaned(tbl, t) # {} /\ ~FtsContentReadable
    THEN [images |-> tbl, ret |-> "throw"]
    ELSE [images |-> tbl \ Orphaned(tbl, t), ret |-> Cardinality(Orphaned(tbl, t))]

InitCache ==
    /\ images \in BatchTables
    /\ imagesFts = FtsOf(images)
    /\ projects = {}
    /\ operationCount = 0
    /\ dbPre = images
    /\ dbOp = NoOp
    /\ projCalls = <<>>
    /\ now \in {ThirtyDays + 1, ThirtyDays + 2}
    /\ srcFiles = NoFiles
    /\ derivs = NoFiles
    /\ generated = {}
    /\ scOp = NoOp
    /\ IdleEngine

\* the diff's statement for a vanished file
CacheDeleteImage ==
    /\ dbOp.kind = "none"
    /\ \E fileName \in Names, projectId \in {SanitizeId(FolderAB), SanitizeId(FolderC)} :
        /\ images' = DeleteImage(images, fileName, projectId)
        /\ dbOp' = [kind |-> "deleteImage", file_name |-> fileName,
                    project_id |-> projectId,
                    ret |-> IF DeleteThrows(images, fileName, projectId)
                            THEN "throw" ELSE "ok"]
    /\ dbPre' = images
    /\ imagesFts' = FtsApply(imagesFts, images, images')
    /\ UNCHANGED <<projects, operationCount, projCalls, fsVars, scObs, storeVars, engVars,
                   diffRun>>

\* cleanupOrphaned()
CacheCleanupOrphaned ==
    /\ dbOp.kind = "none"
    /\ images' = DbCleanupOrphaned(images, now).images
    /\ dbOp' = [kind |-> "cleanupOrphaned", at |-> now,
                ret |-> DbCleanupOrphaned(images, now).ret]
    /\ dbPre' = images
    /\ imagesFts' = FtsApply(imagesFts, images, images')
    /\ UNCHANGED <<projects, operationCount, projCalls, fsVars, scObs, storeVars, engVars,
                   diffRun>>

NextCache ==
    \/ DbUpsertImagesBatch
    \/ DbBatchUpsertImage
    \/ CacheDeleteImage
    \/ CacheCleanupOrphaned

SpecCache == InitCache /\ [][NextCache]_vars

\* C35: cleanupOrphaned deletes exactly the rows that have rating 0, no tag
\* and a modifiedAt more than 30 days before the call, leaves every other
\* row, and returns the number of rows it has deleted.
C35_CleanupDeletesExactlyOldUnrated ==
    dbOp.kind = "cleanupOrphaned" =>
        LET old == {row \in dbPre : /\ row.rating = 0
                                    /\ row.id \notin TaggedIds
                                    /\ row.modified_at < dbOp.at - ThirtyDays}
        IN  /\ images = dbPre \ old
            /\ dbOp.ret = Cardinality(old)

\* the writes of the Metadata Cache on table images
CacheWrites == {"upsertImage", "upsertImagesBatch", "deleteImage", "cleanupOrphaned"}

C37_BatchIsAllOrNothing ==
    (dbOp.kind = "upsertImagesBatch" /\ RunBatch(dbPre, dbOp.recs).ret = "throw")
    => /\ dbOp.ret = "throw"
       /\ images = dbPre
       /\ imagesFts = FtsOf(dbPre)

\* C37 witness: a batch has failed at its second record, after a first
\* record that inserts a row the table did not hold.
C37_Witness ==
    /\ dbOp.kind = "upsertImagesBatch"
    /\ dbOp.ret = "throw"
    /\ Len(dbOp.recs) = 2
    /\ \A row \in dbPre : row.id # dbOp.recs[1].id
    /\ UpsertThrows(dbPre, dbOp.recs[2])

(***************************************************************************)
(* The engine with a sidecar directory that cannot be created: one of the  *)
(* fs.ensureDir calls of SidecarManager.initialize rejects, the await of    *)
(* line 192 throws and the start-watching handler rejects there.            *)
(***************************************************************************)
MaxInitFailWork == 3

\* sidecarManager.initialize() has rejected: lines 193-266 are not run
SwInitializeRejects ==
    /\ \E sid \in 1..Len(sessions) :
        /\ sessions[sid].pc = "init"
        /\ sessions' = [sessions EXCEPT ![sid] = [@ EXCEPT !.pc = "failed"]]
    /\ UNCHANGED <<dbVars, dbObs, projCalls, fsVars, scObs, storeVars, watcher,
                   closedW, sidecarManagers, serverManagers, pipes, bg, events,
                   sent, served, listener, work, diffRun>>

InitInitFail == InitEngine(MaxInitFailWork)

NextInitFail ==
    \/ Next
    \/ SwInitializeRejects

SpecInitFail == InitInitFail /\ [][NextInitFail]_vars

\* the call of session sid ends in this step with initialize's rejection
InitializeRejects(sid) ==
    /\ sid <= Len(sessions)
    /\ sessions[sid].pc = "init"
    /\ sessions'[sid].pc = "failed"

\* C38: when the sidecar directory of a call's folder cannot be created, the
\* call fails and registers no handle, and every other project is as before
\* the call: its handles, its cache rows, and its watch when it had one.
C38_InitFailureLeavesOthers ==
    [][\A sid \in 1..MaxCalls :
        InitializeRejects(sid)
        => LET S == sessions[sid]
           IN  /\ sidecarManagers' = sidecarManagers
               /\ serverManagers' = serverManagers
               /\ images' = images
               /\ (S.closes # 0 /\ sessions[S.closes].projectId # S.projectId)
                    => S.closes \in OpenWatchers'
      ]_vars

(***************************************************************************)
(* ThumbnailServer.start(): the search for a port.  Other programs hold    *)
(* some of the ports, and listen() may fail on a port for another reason   *)
(* than the address being in use.  TopPort stands for the highest port     *)
(* number there is: listen() throws on a number above it.                  *)
(***************************************************************************)
FirstPort == 45678
PortSpan == 5
TopPort == FirstPort + PortSpan
Ports == FirstPort..TopPort

NextPortToTrySkipping(port) == port + 2

\* tryPort(port + 1)
NextPortToTry(port) == port + 1

GetPort == listener.port

GetUrl == <<"http://localhost:", listener.port>>

\* the ports no other program holds
FreePorts == Ports \ listener.inUse

Smallest(S) == CHOOSE p \in S : \A q \in S : p <= q

InitPort ==
    /\ IdleDb
    /\ IdleFs
    /\ IdleEngine

\* start() is called: tryPort(45678).  The ports other programs hold, and the
\* port on which listen() fails for another reason, stay as they are while
\* the search runs.
PortStart ==
    /\ listener.pc = "idle"
    /\ \E inUse \in SUBSET Ports :
        \E errors \in {{}} \cup {{p} : p \in Ports \ inUse} :
            listener' = [listener EXCEPT !.pc = "trying", !.trying = FirstPort,
                                         !.inUse = inUse, !.errors = errors]
    /\ UNCHANGED <<dbVars, dbObs, projCalls, fsVars, scObs, storeVars, watcher, closedW,
                   sidecarManagers, serverManagers, sessions, pipes, bg, events, sent,
                   served, work, diffRun>>

\* 'listening': this.port = port; resolve(port)
PortListening ==
    /\ listener.pc = "trying"
    /\ listener.trying \notin listener.inUse \cup listener.errors
    /\ listener' = [listener EXCEPT !.pc = "listening", !.port = listener.trying,
                                    !.resolved = listener.trying]
    /\ UNCHANGED <<dbVars, dbObs, projCalls, fsVars, scObs, storeVars, watcher, closedW,
                   sidecarManagers, serverManagers, sessions, pipes, bg, events, sent,
                   served, work, diffRun>>

\* 'error' with code EADDRINUSE: tryPort(port + 1); listen() throws in the
\* handler when the number is above the highest port, and start() never settles
PortAddrInUse ==
    /\ listener.pc = "trying"
    /\ listener.trying \in listener.inUse
    /\ listener' = IF NextPortToTry(listener.trying) <= TopPort
                   THEN [listener EXCEPT !.trying = NextPortToTry(listener.trying)]
                   ELSE [listener EXCEPT !.pc = "threw"]
    /\ UNCHANGED <<dbVars, dbObs, projCalls, fsVars, scObs, storeVars, watcher, closedW,
                   sidecarManagers, serverManagers, sessions, pipes, bg, events, sent,
                   served, work, diffRun>>

\* 'error' with another code: reject(err)
PortOtherError ==
    /\ listener.pc = "trying"
    /\ listener.trying \in listener.errors
    /\ listener' = [listener EXCEPT !.pc = "rejected"]
    /\ UNCHANGED <<dbVars, dbObs, projCalls, fsVars, scObs, storeVars, watcher, closedW,
                   sidecarManagers, serverManagers, sessions, pipes, bg, events, sent,
                   served, work, diffRun>>

NextPort ==
    \/ PortStart
    \/ PortListening
    \/ PortAddrInUse
    \/ PortOtherError

SpecPort == InitPort /\ [][NextPort]_vars

\* every event of the listening socket is delivered
SpecPortFair == SpecPort /\ WF_vars(NextPort)

Bound == listener.pc = "listening"

\* C39: start() resolves with the smallest port from 45678 upward that no
\* other program holds, and getPort() and getUrl() report that port; while
\* some port from 45678 upward is free the search ends, bound or rejected;
\* and an error other than address-in-use rejects on the port it came from,
\* after which no port is tried.
C39_BindsFirstFreePort ==
    /\ [](Bound => /\ listener.resolved = Smallest(FreePorts)
                   /\ GetPort = listener.resolved
                   /\ GetUrl = <<"http://localhost:", listener.resolved>>)
    /\ ((listener.pc = "trying" /\ FreePorts # {})
          ~> listener.pc \in {"listening", "rejected"})
    /\ [][/\ listener'.pc = "rejected" =>
                /\ listener.trying \in listener.errors
                /\ listener'.trying = listener.trying
                /\ listener'.port = 0
          /\ listener.pc = "rejected" => listener' = listener]_vars

\* C39 witness: the server is bound after two ports in use were passed over.
C39_Witness ==
    /\ Bound
    /\ {FirstPort, FirstPort + 1} \subseteq listener.inUse
    /\ GetPort = FirstPort + 2

(***************************************************************************)
(* The course of a start-watching session.                                 *)
(***************************************************************************)
\* Loading (the handler up to its return), Diffing, and the diff at its end
Stage(pc) ==
    IF pc \in {"closing", "init"} THEN 1
    ELSE IF pc \in {"readdir", "batch"} THEN 2
    ELSE 3

\* the diff of the session has run through its deleted-files pass
DiffCompleted(sid) ==
    sid <= Len(sessions) /\ sessions[sid].diff = "done"

\* C40: a session goes from Loading to Diffing to Watching and never back;
\* with every step of the main process taken in the end its diff completes,
\* failing files or not; and a session that is Watching stays so in every
\* step that is not the receipt of a start-watching call.
C40_SessionReachesWatching ==
    /\ [][\A sid \in 1..Len(sessions) :
            Stage(sessions'[sid].pc) \in {Stage(sessions[sid].pc),
                                         Stage(sessions[sid].pc) + 1}]_vars
    /\ \A sid \in 1..MaxCalls : (sid <= Len(sessions)) ~> DiffCompleted(sid)
    /\ [][\A sid \in 1..MaxCalls :
            Watching(sid) => (Watching(sid)' \/ Len(sessions') > Len(sessions))]_vars

====
